---------------------------- MODULE Spec2Model ----------------------------
(***************************************************************************)
(* Verification model of the deterministic emulation engine of             *)
(* creepjs-on-happy-dom: the Performance timeline (clock, entry buffers),  *)
(* the Canvas 2D emulator (operation log, image-data cache, data URLs),    *)
(* the Audio emulator (sample buffers) and the WebGL emulator (object      *)
(* identifiers).                                                           *)
(*                                                                         *)
(* Conventions.                                                            *)
(*  - A JavaScript string is a sequence of UTF-16 code units.              *)
(*  - A 32-bit integer is a pair <<hi, lo>> of 16-bit halves, because the  *)
(*    model checker's own integers are 32-bit signed and the hash folds    *)
(*    wrap at 2^32.  A "Num" is such a pair read as hi * 65536 + lo.       *)
(*  - Performance times are counted in ticks of 0.01 ms, the finest step   *)
(*    the clock code can produce (jitter unit and minimum resolution).     *)
(*  - An optional config field is <<>> (absent) or <<v>> (present).        *)
(***************************************************************************)
EXTENDS Integers, Sequences, FiniteSets, TLC

-----------------------------------------------------------------------------
(* Bounds of the model *)

\* wall-clock readings (Date.now() - createdEpochMs) range over 0..MaxWallMs
MaxWallMs == 2
\* clock reads (computeNow calls) recorded per behaviour
MaxClockReads == 3
\* addResourceTiming calls after construction
MaxAdds == 3
\* largest argument (in halves) given to setResourceTimingBufferSize
MaxSizeHalves == 4
\* mark() calls
MaxMarks == 2
\* measure() calls
MaxMeasures == 1
\* 2D contexts created per Canvas emulator
MaxContexts == 2
\* rendering operations recorded per Canvas emulator after construction
MaxDraws == 2
\* audio contexts created per behaviour
MaxAudioContexts == 2
\* audio buffers created per behaviour
MaxBuffers == 2
\* getChannelData calls per behaviour
MaxChannelReads == 3
\* analysers created per behaviour
MaxAnalysers == 2
\* WebGL contexts created per WebGL emulator
MaxGLContexts == 2
\* WebGL objects created per behaviour
MaxGLObjects == 3
\* shaders attached to one program
MaxAttached == 1
\* calls made on the ChromeEmulatorImpl instance per behaviour
MaxChromeCalls == 4
\* connect calls made on the nodes of one offline audio context
MaxConnects == 2
\* startRendering calls per behaviour
MaxRenders == 2

-----------------------------------------------------------------------------
(* Generic helpers *)

Max(a, b) == IF a >= b THEN a ELSE b
Min(a, b) == IF a <= b THEN a ELSE b

RECURSIVE SumRange(_, _, _)
\* s[i] + ... + s[j], summed by halves to keep the evaluation shallow
SumRange(s, i, j) ==
    IF i > j THEN 0
    ELSE IF i = j THEN s[i]
    ELSE SumRange(s, i, (i + j) \div 2) + SumRange(s, ((i + j) \div 2) + 1, j)

SumSeq(s) == CHOOSE r \in {SumRange(sv, 1, Len(sv)) : sv \in {s}} : TRUE

RECURSIVE ConcatFrom(_, _)
ConcatFrom(ss, i) == IF i > Len(ss) THEN <<>> ELSE ss[i] \o ConcatFrom(ss, i + 1)

\* Array.prototype.join('') over a sequence of strings
Concat(ss) == ConcatFrom(ss, 1)

RECURSIVE Digits(_)
\* decimal digits of a natural number, as character codes
Digits(n) == IF n < 10 THEN <<48 + n>> ELSE Digits(n \div 10) \o <<48 + (n % 10)>>

\* Number.prototype.toString for an integer
IntToString(n) == IF n < 0 THEN <<45>> \o Digits(0 - n) ELSE Digits(n)

RECURSIVE StripZeros(_)
StripZeros(s) == IF s # <<>> /\ s[Len(s)] = 48 THEN StripZeros(SubSeq(s, 1, Len(s) - 1)) ELSE s

\* Number.prototype.toString for the non-negative number n / 1000
MilliToString(n) ==
    IF n % 1000 = 0 THEN Digits(n \div 1000)
    ELSE Digits(n \div 1000) \o <<46>> \o
         StripZeros(<<48 + ((n % 1000) \div 100), 48 + ((n % 100) \div 10), 48 + (n % 10)>>)

-----------------------------------------------------------------------------
(* 32-bit arithmetic on <<hi, lo>> pairs *)

NumMod(n, m) == ((((n[1] % m) * 256) % m) * 256 + n[2]) % m

NumAdd(n, k) == <<n[1] + ((n[2] + k) \div 65536), (n[2] + k) % 65536>>

RECURSIVE NumDigits(_)
\* decimal digits of a Num (long division by 10)
NumDigits(n) ==
    LET r == (n[1] % 10) * 65536 + n[2]
    IN  IF n[1] = 0 /\ n[2] < 10 THEN <<48 + n[2]>>
        ELSE NumDigits(<<n[1] \div 10, r \div 10>>) \o <<48 + (r % 10)>>

\* one round of  hash = ((hash << 5) - hash) + char;  hash |= 0
HashStep(h, c) ==
    LET s0 == (h[2] * 32) % 65536
        s1 == (h[1] * 32 + (h[2] * 32) \div 65536) % 65536
        lo == s0 - h[2] + c
        hi == s1 - h[1] + (lo \div 65536)
    IN  <<hi % 65536, lo % 65536>>

RECURSIVE HashRange(_, _, _, _)
\* the rounds for str[i..j] applied in order to h; the range is split in
\* halves and each half's result is bound before the next half starts
HashRange(h, str, i, j) ==
    IF i > j THEN h
    ELSE IF i = j THEN HashStep(h, str[i])
    ELSE LET mid == (i + j) \div 2
         IN  CHOOSE r \in {HashRange(hv, str, mid + 1, j) :
                              hv \in {HashRange(h, str, i, mid)}} : TRUE

\* for (let i = 0; i < str.length; i++) { ...one round... }
HashFold(h, str) == CHOOSE r \in {HashRange(h, sv, 1, Len(sv)) : sv \in {str}} : TRUE

\* Math.abs of the signed 32-bit value with bit pattern h
Abs32(h) ==
    IF h[1] >= 32768
    THEN <<65535 - h[1] + (IF h[2] = 0 THEN 1 ELSE 0), (65536 - h[2]) % 65536>>
    ELSE h

StringHash(str) == Abs32(HashFold(<<0, 0>>, str))

\* str.split('').reduce((acc, ch) => acc + ch.charCodeAt(0), 0)
CharCodeSum(str) == SumSeq(str)

\* The strings of the source, each as the sequence of its UTF-16 code units.
Str ==
    [
      \* "139.0.7258.67"
      VERSION_139 |-> <<49, 51, 57, 46, 48, 46, 55, 50, 53, 56, 46, 54, 55>>,
      \* "138.0.0.0"
      VERSION_138 |-> <<49, 51, 56, 46, 48, 46, 48, 46, 48>>,
      \* "Win32"
      WIN32 |-> <<87, 105, 110, 51, 50>>,
      \* "MacIntel"
      MACINTEL |-> <<77, 97, 99, 73, 110, 116, 101, 108>>,
      \* "Google Inc. (Intel)"
      VENDOR_INTEL |-> <<71, 111, 111, 103, 108, 101, 32, 73, 110, 99, 46, 32, 40, 73, 110,
          116, 101, 108, 41>>,
      \* "ANGLE (Intel, Intel(R) UHD Graphics 620 (0x00005917) Direct3D11 vs_5_0 ps_5_0, D3D11)"
      RENDERER_INTEL |-> <<65, 78, 71, 76, 69, 32, 40, 73, 110, 116, 101, 108, 44, 32, 73,
          110, 116, 101, 108, 40, 82, 41, 32, 85, 72, 68, 32, 71, 114, 97, 112, 104, 105,
          99, 115, 32, 54, 50, 48, 32, 40, 48, 120, 48, 48, 48, 48, 53, 57, 49, 55, 41, 32,
          68, 105, 114, 101, 99, 116, 51, 68, 49, 49, 32, 118, 115, 95, 53, 95, 48, 32,
          112, 115, 95, 53, 95, 48, 44, 32, 68, 51, 68, 49, 49, 41>>,
      \* "ANGLE (NVIDIA, NVIDIA GeForce GTX 1060 Direct3D11 vs_5_0 ps_5_0, D3D11)"
      RENDERER_NVIDIA |-> <<65, 78, 71, 76, 69, 32, 40, 78, 86, 73, 68, 73, 65, 44, 32, 78,
          86, 73, 68, 73, 65, 32, 71, 101, 70, 111, 114, 99, 101, 32, 71, 84, 88, 32, 49,
          48, 54, 48, 32, 68, 105, 114, 101, 99, 116, 51, 68, 49, 49, 32, 118, 115, 95, 53,
          95, 48, 32, 112, 115, 95, 53, 95, 48, 44, 32, 68, 51, 68, 49, 49, 41>>,
      \* "|"
      PIPE |-> <<124>>,
      \* "x"
      X |-> <<120>>,
      \* "_"
      UNDERSCORE |-> <<95>>,
      \* "Canvas fingerprint"
      CANVAS_FINGERPRINT |-> <<67, 97, 110, 118, 97, 115, 32, 102, 105, 110, 103, 101, 114,
          112, 114, 105, 110, 116>>,
      \* "14px Arial"
      FONT_14PX_ARIAL |-> <<49, 52, 112, 120, 32, 65, 114, 105, 97, 108>>,
      \* "10px sans-serif"
      FONT_DEFAULT |-> <<49, 48, 112, 120, 32, 115, 97, 110, 115, 45, 115, 101, 114, 105,
          102>>,
      \* "_q"
      Q |-> <<95, 113>>,
      \* "1.0"
      ONE_DOT_ZERO |-> <<49, 46, 48>>,
      \* "image/png"
      IMAGE_PNG |-> <<105, 109, 97, 103, 101, 47, 112, 110, 103>>,
      \* "image/jpeg"
      IMAGE_JPEG |-> <<105, 109, 97, 103, 101, 47, 106, 112, 101, 103>>,
      \* "image/webp"
      IMAGE_WEBP |-> <<105, 109, 97, 103, 101, 47, 119, 101, 98, 112>>,
      \* "data:"
      DATA |-> <<100, 97, 116, 97, 58>>,
      \* ";base64,"
      BASE64 |-> <<59, 98, 97, 115, 101, 54, 52, 44>>,
      \* "iVBORw0KGgoAAAANSUhEUgAA"
      PNG_SIGNATURE |-> <<105, 86, 66, 79, 82, 119, 48, 75, 71, 103, 111, 65, 65, 65, 65,
          78, 83, 85, 104, 69, 85, 103, 65, 65>>,
      \* "/9j/4AAQSkZJRgABAQAAAQABAAD"
      JPEG_SIGNATURE |-> <<47, 57, 106, 47, 52, 65, 65, 81, 83, 107, 90, 74, 82, 103, 65,
          66, 65, 81, 65, 65, 65, 81, 65, 66, 65, 65, 68>>,
      \* "ABCDEFGHIJKLMNOPQRSTUVWXYZabcdefghijklmnopqrstuvwxyz0123456789+/"
      BASE64_CHARS |-> <<65, 66, 67, 68, 69, 70, 71, 72, 73, 74, 75, 76, 77, 78, 79, 80,
          81, 82, 83, 84, 85, 86, 87, 88, 89, 90, 97, 98, 99, 100, 101, 102, 103, 104, 105,
          106, 107, 108, 109, 110, 111, 112, 113, 114, 115, 116, 117, 118, 119, 120, 121,
          122, 48, 49, 50, 51, 52, 53, 54, 55, 56, 57, 43, 47>>,
      \* "fillRect"
      fillRect |-> <<102, 105, 108, 108, 82, 101, 99, 116>>,
      \* "beginPath"
      beginPath |-> <<98, 101, 103, 105, 110, 80, 97, 116, 104>>,
      \* "shader"
      shader |-> <<115, 104, 97, 100, 101, 114>>,
      \* "program"
      program |-> <<112, 114, 111, 103, 114, 97, 109>>,
      \* "vao"
      vao |-> <<118, 97, 111>>,
      \* "query"
      query |-> <<113, 117, 101, 114, 121>>,
      \* "Hi"
      TEXT_HI |-> <<72, 105>>,
      \* "A"
      TEXT_A |-> <<65>>,
      \* "render_"
      RENDER |-> <<114, 101, 110, 100, 101, 114, 95>>,
      \* "shape_"
      SHAPE |-> <<115, 104, 97, 112, 101, 95>>,
      \* "text_"
      TEXT |-> <<116, 101, 120, 116, 95>>,
      \* "image/gif"
      IMAGE_GIF |-> <<105, 109, 97, 103, 101, 47, 103, 105, 102>>,
      \* "WebGL 1.0 (OpenGL ES 2.0 Chromium)"
      WEBGL_VERSION |-> <<87, 101, 98, 71, 76, 32, 49, 46, 48, 32, 40, 79, 112, 101, 110,
          71, 76, 32, 69, 83, 32, 50, 46, 48, 32, 67, 104, 114, 111, 109, 105, 117, 109,
          41>>,
      \* "WebGL GLSL ES 1.0 (OpenGL ES GLSL ES 1.0 Chromium)"
      GLSL_VERSION |-> <<87, 101, 98, 71, 76, 32, 71, 76, 83, 76, 32, 69, 83, 32, 49, 46,
          48, 32, 40, 79, 112, 101, 110, 71, 76, 32, 69, 83, 32, 71, 76, 83, 76, 32, 69,
          83, 32, 49, 46, 48, 32, 67, 104, 114, 111, 109, 105, 117, 109, 41>>
    ]

-----------------------------------------------------------------------------
(* Configuration *)

\* EmulationConfigManager.getDefaultConfig
DefaultConfig ==
    [ chromeVersion |-> Str.VERSION_139,
      platform      |-> Str.WIN32,
      viewport      |-> [width |-> 1920, height |-> 1080],
      webgl         |-> [vendor |-> Str.VENDOR_INTEL, renderer |-> Str.RENDERER_INTEL,
                        version |-> Str.WEBGL_VERSION],
      audio         |-> [sampleRate |-> 48000, maxChannelCount |-> 2],
      performance   |-> [baseLatency |-> 100, nowResolutionMs |-> <<>>, jitterMs |-> <<>>] ]

\* configs that differ from DefaultConfig in exactly one identity field
VersionConfig    == [DefaultConfig EXCEPT !.chromeVersion = Str.VERSION_138]
PlatformConfig   == [DefaultConfig EXCEPT !.platform = Str.MACINTEL]
ViewportConfig   == [DefaultConfig EXCEPT !.viewport.width = 1366]
RendererConfig   == [DefaultConfig EXCEPT !.webgl.renderer = Str.RENDERER_NVIDIA]
SampleRateConfig == [DefaultConfig EXCEPT !.audio.sampleRate = 44100]
LatencyConfig    == [DefaultConfig EXCEPT !.performance.baseLatency = 50]
\* a config with the optional clock tuning set: resolution 1 ms, jitter 0.02 ms
TunedConfig ==
    [DefaultConfig EXCEPT !.performance.nowResolutionMs = <<100>>,
                          !.performance.jitterMs = <<2>>]
\* a config with fewer output channels
MonoConfig == [DefaultConfig EXCEPT !.audio.maxChannelCount = 1]

IdentityVariants ==
    {VersionConfig, PlatformConfig, ViewportConfig, RendererConfig, SampleRateConfig,
     LatencyConfig}

Opt(field, default) == IF field = <<>> THEN default ELSE field[1]


-----------------------------------------------------------------------------
(* State *)

VARIABLES
    perf,        \* the ChromePerformanceEmulator instance: its fields
    wall,        \* environment: Date.now() - createdEpochMs, in ms
    clockLog,    \* history: every computeNow call so far, [op, wall, value]
    addCount,    \* history: addResourceTiming calls so far (object identities)
    resizeMark,  \* history: <<>> or <<[k, at]>>: the last accepted
                 \* setResourceTimingBufferSize(k) with integer k, made when
                 \* addCount was `at`, with no clearResourceTimings since
    canvas,      \* the ChromeCanvasEmulator instances and their 2D contexts
    canvasLog,   \* history: the ImageData objects handed out, and the latest read
    audio,       \* the ChromeAudioEmulator instances
    audioLog,    \* history: the buffers handed out and the reads made on them
    gl,          \* the ChromeWebGLEmulator instances
    glLog,       \* the objects handed out by the WebGL contexts, with the
                 \* properties the context methods set on them
    glRead,      \* history: <<>> or the latest query made on a WebGL context
                 \* and what it returned
    chrome,      \* the ChromeEmulatorImpl instance: its fields
    chromeLog    \* history: the calls made on it, each with its outcome

perfVars   == <<perf, wall, clockLog, addCount, resizeMark>>
canvasVars == <<canvas, canvasLog>>
audioVars  == <<audio, audioLog>>
glVars     == <<gl, glLog, glRead>>
chromeVars == <<chrome, chromeLog>>
vars       == <<perfVars, canvasVars, audioVars, glVars, chromeVars>>

\* no instance of the subsystem has been constructed
PerfIdle   == perf = <<>> /\ wall = 0 /\ clockLog = <<>> /\ addCount = 0 /\ resizeMark = <<>>
CanvasIdle == canvas = <<>> /\ canvasLog = <<>>
AudioIdle  == audio = <<>> /\ audioLog = <<>>
GLIdle     == gl = <<>> /\ glLog = <<>> /\ glRead = <<>>
ChromeIdle == chrome = <<>> /\ chromeLog = <<>>
-----------------------------------------------------------------------------
(* Performance emulator: src/src/emulators/performance-emulator.ts *)

PerfConfigs == {DefaultConfig, VersionConfig, TunedConfig}
MarkNames == {"a", "b"}
ResourceNames == {"https://example.com/r.js"}

\* ChromePerformanceEmulator.hashConfig
PerfHashConfig(cfg) ==
    StringHash(cfg.chromeVersion \o Str.PIPE \o cfg.platform \o Str.PIPE \o
               MilliToString(cfg.performance.baseLatency))

\* ChromePerformanceEmulator.randomRange
RandomRange(seed, min, max) ==
    LET p0   == seed[2] * 26125
        hi   == (seed[1] * 26125 + seed[2] * 25 + (p0 \div 65536)) % 65536
        lo   == p0 % 65536
        s0   == lo + 62303
        v    == <<(hi + 15470 + (s0 \div 65536)) % 65536, s0 % 65536>>
        frac == NumMod(v, 1000)
    IN  min + ((max - min) * frac) \div 1000

\* mutation of ClampToWatermark: the rounded value is returned as it is
ClampToWatermark_Unclamped(value, last, resolution) == value

\* computeNow: "if (value < this.lastNowMs) value = this.lastNowMs + resolution"
ClampToWatermark(value, last, resolution) ==
    IF value < last THEN last + resolution ELSE value

\* ChromePerformanceEmulator.computeNow, without the watermark update:
\* the value returned for wall-clock reading w (ms since construction)

ComputeNow(cfg, seed, last, w) ==
    LET elapsedMs     == w * 100
        baseLatencyMs == Max(0, cfg.performance.baseLatency * 100)
        cfgJitter     == Opt(cfg.performance.jitterMs, 6)
        jitterMs      == Min(500, Max(0, cfgJitter))
        det           == NumMod(seed, 7)
        raw           == elapsedMs + baseLatencyMs + Min(jitterMs, det)
        resolution    == Max(1, Opt(cfg.performance.nowResolutionMs, 5))
        rounded       == ((2 * raw + resolution) \div (2 * resolution)) * resolution
    IN  ClampToWatermark(rounded, last, resolution)

Resolution(cfg) == Max(1, Opt(cfg.performance.nowResolutionMs, 5))

\* ChromePerformanceEmulator.generateServerTiming
GenerateServerTiming(seed, resourceName) ==
    LET base == (NumMod(seed, 13) + ((Len(resourceName) * 97) % 13)) % 13
    IN  << [name |-> "cdn-cache", duration |-> (2 + base) * 100, description |-> <<"HIT">>],
           [name |-> "edge", duration |-> (5 + (base % 3)) * 100, description |-> <<>>],
           [name |-> "origin", duration |-> (12 + (base % 5)) * 100, description |-> <<>>] >>

\* mutation of NavigationMilestones: DOMContentLoaded ends before it starts
NavigationMilestones_DclEndEarly(connect) ==
    LET request        == connect + 500
        responseStart  == request + 3000
        responseEnd    == responseStart + 1000
        domInteractive == responseEnd + 3500
        dclStart       == domInteractive + 500
        dclEnd         == dclStart - 300
        loadStart      == dclEnd + 4000
        loadEnd        == loadStart + 500
    IN  [ request |-> request, responseStart |-> responseStart,
          responseEnd |-> responseEnd, domInteractive |-> domInteractive,
          dclStart |-> dclStart, dclEnd |-> dclEnd,
          loadStart |-> loadStart, loadEnd |-> loadEnd ]

\* generateDefaultNavigationEntry: the milestones derived from `connect`
NavigationMilestones(connect) ==
    LET request        == connect + 500
        responseStart  == request + 3000
        responseEnd    == responseStart + 1000
        domInteractive == responseEnd + 3500
        dclStart       == domInteractive + 500
        dclEnd         == dclStart + 300
        loadStart      == dclEnd + 4000
        loadEnd        == loadStart + 500
    IN  [ request |-> request, responseStart |-> responseStart,
          responseEnd |-> responseEnd, domInteractive |-> domInteractive,
          dclStart |-> dclStart, dclEnd |-> dclEnd,
          loadStart |-> loadStart, loadEnd |-> loadEnd ]

\* ChromePerformanceEmulator.generateDefaultNavigationEntry
GenerateDefaultNavigationEntry(seed) ==
    LET base    == 0
        connect == (20 + NumMod(seed, 10)) * 100
        m       == NavigationMilestones(connect)
    IN  [ name |-> "https://example.com/", entryType |-> "navigation",
          startTime |-> base, duration |-> m.loadEnd - base,
          type |-> "navigate", redirectCount |-> 0,
          unloadEventStart |-> base, unloadEventEnd |-> base,
          connectStart |-> connect - 500, connectEnd |-> connect,
          requestStart |-> m.request,
          responseStart |-> m.responseStart, responseEnd |-> m.responseEnd,
          domainLookupStart |-> connect - 1000, domainLookupEnd |-> connect - 500,
          fetchStart |-> base + 100,
          redirectStart |-> 0, redirectEnd |-> 0, workerStart |-> 0,
          activationStart |-> base,
          domInteractive |-> m.domInteractive,
          domContentLoadedEventStart |-> m.dclStart,
          domContentLoadedEventEnd |-> m.dclEnd,
          domComplete |-> m.loadEnd - 200,
          loadEventStart |-> m.loadStart, loadEventEnd |-> m.loadEnd ]

\* ChromePerformanceEmulator.findLastMark: <<>> when there is none
RECURSIVE FindLastMarkFrom(_, _, _)
FindLastMarkFrom(marks, name, i) ==
    IF i < 1 THEN <<>>
    ELSE IF marks[i].name = name THEN <<marks[i]>>
    ELSE FindLastMarkFrom(marks, name, i - 1)

\* mutation of FindLastMark: the first mark of that name
FindLastMark_First(p, name) ==
    IF \E i \in DOMAIN p.markEntries : p.markEntries[i].name = name
    THEN <<p.markEntries[CHOOSE i \in DOMAIN p.markEntries :
               /\ p.markEntries[i].name = name
               /\ \A j \in 1..(i - 1) : p.markEntries[j].name # name]>>
    ELSE <<>>

FindLastMark(p, name) == FindLastMarkFrom(p.markEntries, name, Len(p.markEntries))

\* Array.prototype.slice(-n): the whole array for n = 0, since -0 is 0
SliceLast(s, n) ==
    IF n = 0 \/ n >= Len(s) THEN s ELSE SubSeq(s, Len(s) - n + 1, Len(s))

\* Array.prototype.filter(e => e.name !== name)
RECURSIVE FilterOutName(_, _)
FilterOutName(s, name) ==
    IF s = <<>> THEN <<>>
    ELSE IF s[1].name = name THEN FilterOutName(Tail(s), name)
    ELSE <<s[1]>> \o FilterOutName(Tail(s), name)

\* mutation of PushBounded: the oldest entry is never dropped
PushBounded_NoShift(entries, resource, size) == Append(entries, resource)

\* addResourceTiming: push(resource), then shift() when over the buffer size
PushBounded(entries, resource, size) ==
    LET pushed == Append(entries, resource)
    IN  IF Len(pushed) > size THEN Tail(pushed) ELSE pushed

\* addResourceTiming: `entry` is the partial record, w the wall-clock reading
\* taken when entry.startTime is absent, id the identity of the new object
AddResourceTiming(p, entry, w, id) ==
    LET now               == ComputeNow(p.config, p.seed, p.lastNowMs, w)
        base              == Opt(entry.startTime, now)
        fetchStart        == base + 0
        domainLookupStart == fetchStart + 200
        domainLookupEnd   == domainLookupStart + 600
        connectStart      == domainLookupEnd + 100
        secureConnectionStart == connectStart + 100
        connectEnd        == connectStart + 1000
        requestStart      == connectEnd + 200
        responseStart     == requestStart + 1500
        responseEnd       == responseStart +
                               Opt(entry.duration, RandomRange(p.seed, 5, 40) * 100)
        encodedBodySize   == Opt(entry.encodedBodySize, RandomRange(p.seed, 1024, 64 * 1024))
        decodedBodySize   == Opt(entry.decodedBodySize, (encodedBodySize * 11) \div 10)
        transferSize      == Opt(entry.transferSize,
                                 encodedBodySize + RandomRange(p.seed, 300, 1200))
        resource ==
          [ id |-> id, name |-> entry.name, entryType |-> "resource",
            initiatorType |-> Opt(entry.initiatorType, "script"),
            nextHopProtocol |-> "h2",
            startTime |-> fetchStart, duration |-> responseEnd - fetchStart,
            transferSize |-> transferSize, encodedBodySize |-> encodedBodySize,
            decodedBodySize |-> decodedBodySize,
            serverTiming |-> GenerateServerTiming(p.seed, entry.name),
            workerStart |-> 0, redirectStart |-> 0, redirectEnd |-> 0,
            fetchStart |-> fetchStart, domainLookupStart |-> domainLookupStart,
            domainLookupEnd |-> domainLookupEnd, connectStart |-> connectStart,
            secureConnectionStart |-> secureConnectionStart, connectEnd |-> connectEnd,
            requestStart |-> requestStart, responseStart |-> responseStart,
            responseEnd |-> responseEnd ]
    IN  [p EXCEPT !.lastNowMs = IF entry.startTime = <<>> THEN now ELSE @,
                  !.resourceEntries = PushBounded(@, resource, p.resourceBufferSize)]

PartialEntry(name, initiatorType, transferSize) ==
    [ name |-> name, startTime |-> <<>>, duration |-> <<>>,
      initiatorType |-> initiatorType, transferSize |-> transferSize,
      encodedBodySize |-> <<>>, decodedBodySize |-> <<>> ]

\* ChromePerformanceEmulator.generateDefaultResourceEntries; ws are the three
\* wall-clock readings taken by its addResourceTiming calls
GenerateDefaultResourceEntries(p, ws) ==
    LET p1 == AddResourceTiming(p,
                 PartialEntry("https://example.com/styles.css", <<"link">>, <<12345>>),
                 ws[1], 1)
        p2 == AddResourceTiming(p1,
                 PartialEntry("https://example.com/app.js", <<"script">>, <<>>), ws[2], 2)
    IN  AddResourceTiming(p2,
                 PartialEntry("https://example.com/logo.png", <<"img">>, <<>>), ws[3], 3)

\* the field initialisers of the class and the constructor up to the seed
NewPerformanceEmulator(cfg) ==
    [ config |-> cfg, seed |-> PerfHashConfig(cfg), lastNowMs |-> 0,
      navigationEntries |-> <<>>, resourceEntries |-> <<>>,
      markEntries |-> <<>>, measureEntries |-> <<>>, resourceBufferSize |-> 250 ]

\* constructor
ConstructPerformanceEmulator(cfg, ws) ==
    LET p0 == NewPerformanceEmulator(cfg)
        p1 == [p0 EXCEPT !.navigationEntries = <<GenerateDefaultNavigationEntry(p0.seed)>>]
    IN  GenerateDefaultResourceEntries(p1, ws)

\* performance.getEntriesByType
GetEntriesByType(p, type) ==
    IF type = "navigation" THEN p.navigationEntries
    ELSE IF type = "resource" THEN p.resourceEntries
    ELSE IF type = "mark" THEN p.markEntries
    ELSE IF type = "measure" THEN p.measureEntries
    ELSE <<>>

\* performance.setResourceTimingBufferSize; the argument is halves / 2
SetResourceTimingBufferSize(p, halves) ==
    IF halves > 0
    THEN LET size == halves \div 2
         IN  [p EXCEPT !.resourceBufferSize = size,
                       !.resourceEntries =
                           IF Len(@) > size THEN SliceLast(@, size) ELSE @]
    ELSE p

\* performance.mark
Mark(p, name, startTime, w) ==
    LET start == Opt(startTime, ComputeNow(p.config, p.seed, p.lastNowMs, w))
    IN  [p EXCEPT !.lastNowMs = IF startTime = <<>> THEN start ELSE @,
                  !.markEntries = Append(@, [name |-> name, entryType |-> "mark",
                                             startTime |-> start, duration |-> 0])]

\* performance.measure: arg.form is "string" (start, end are mark names, end
\* optional) or "options" (start, end, startTime, endTime all optional)
MeasureStart(p, arg) ==
    IF arg.form = "string"
    THEN LET m == IF arg.start[1] # "" THEN FindLastMark(p, arg.start[1]) ELSE <<>>
         IN  IF m # <<>> THEN m[1].startTime ELSE 0
    ELSE IF arg.start # <<>>
         THEN LET m == FindLastMark(p, arg.start[1])
              IN  IF m # <<>> THEN m[1].startTime ELSE 0
         ELSE Opt(arg.startTime, 0)

\* the end timestamp when no clock read is needed, <<>> when computeNow is called
MeasureEndNoClock(p, arg) ==
    IF arg.form = "string"
    THEN IF arg.end # <<>> /\ arg.end[1] # "" THEN FindLastMark(p, arg.end[1]) ELSE <<>>
    ELSE IF arg.end # <<>> THEN FindLastMark(p, arg.end[1])
         ELSE IF arg.endTime # <<>> THEN <<[startTime |-> arg.endTime[1]]>> ELSE <<>>

MeasureReadsClock(p, arg) == MeasureEndNoClock(p, arg) = <<>>

\* mutation of Measure: the duration is end - start, negative when end < start
Measure_Signed(p, name, arg, w) ==
    LET startTime == MeasureStart(p, arg)
        e         == MeasureEndNoClock(p, arg)
        now       == ComputeNow(p.config, p.seed, p.lastNowMs, w)
        endTime   == IF e # <<>> THEN e[1].startTime ELSE now
    IN  [p EXCEPT !.lastNowMs = IF e = <<>> THEN now ELSE @,
                  !.measureEntries = Append(@, [name |-> name, entryType |-> "measure",
                                                startTime |-> startTime,
                                                duration |-> endTime - startTime])]

Measure(p, name, arg, w) ==
    LET startTime == MeasureStart(p, arg)
        e         == MeasureEndNoClock(p, arg)
        now       == ComputeNow(p.config, p.seed, p.lastNowMs, w)
        endTime   == IF e # <<>> THEN e[1].startTime ELSE now
        duration  == Max(0, endTime - startTime)
    IN  [p EXCEPT !.lastNowMs = IF e = <<>> THEN now ELSE @,
                  !.measureEntries = Append(@, [name |-> name, entryType |-> "measure",
                                                startTime |-> startTime,
                                                duration |-> duration])]

\* performance.clearMarks / clearMeasures; name is <<>> when omitted
ClearMarks(p, name) ==
    [p EXCEPT !.markEntries =
        IF name = <<>> \/ name[1] = "" THEN <<>> ELSE FilterOutName(@, name[1])]

ClearMeasures(p, name) ==
    [p EXCEPT !.measureEntries =
        IF name = <<>> \/ name[1] = "" THEN <<>> ELSE FilterOutName(@, name[1])]

\* performance.clearResourceTimings
ClearResourceTimings(p) == [p EXCEPT !.resourceEntries = <<>>]

\* performance.getEntries / getEntriesByName
GetEntries(p) ==
    p.navigationEntries \o p.resourceEntries \o p.markEntries \o p.measureEntries

-----------------------------------------------------------------------------
(* Performance emulator: operations *)

LogRead(log, op, w, value) == Append(log, [op |-> op, wall |-> w, value |-> value])

\* the clock reads of the constructor's three addResourceTiming calls
ConstructionLog(cfg, ws) ==
    LET p0 == NewPerformanceEmulator(cfg)
        v1 == ComputeNow(cfg, p0.seed, 0, ws[1])
        v2 == ComputeNow(cfg, p0.seed, v1, ws[2])
        v3 == ComputeNow(cfg, p0.seed, v2, ws[3])
    IN  << [op |-> "construct", wall |-> ws[1], value |-> v1],
           [op |-> "construct", wall |-> ws[2], value |-> v2],
           [op |-> "construct", wall |-> ws[3], value |-> v3] >>

PerfInit ==
    /\ wall = 0
    /\ \E cfg \in PerfConfigs :
        /\ perf = ConstructPerformanceEmulator(cfg, <<wall, wall, wall>>)
        /\ clockLog = ConstructionLog(cfg, <<wall, wall, wall>>)
    /\ addCount = 3
    /\ resizeMark = <<>>

CanRead == Len(clockLog) < 3 + MaxClockReads

\* the system clock advances, or is adjusted backwards
ClockStep ==
    /\ \E w \in 0..MaxWallMs : w # wall /\ wall' = w
    /\ UNCHANGED <<perf, clockLog, addCount, resizeMark>>
    /\ UNCHANGED <<canvasVars, audioVars, glVars, chromeVars>>

\* performance.now()
CallNow ==
    /\ CanRead
    /\ LET v == ComputeNow(perf.config, perf.seed, perf.lastNowMs, wall)
       IN  /\ perf' = [perf EXCEPT !.lastNowMs = v]
           /\ clockLog' = LogRead(clockLog, "now", wall, v)
    /\ UNCHANGED <<wall, addCount, resizeMark>>
    /\ UNCHANGED <<canvasVars, audioVars, glVars, chromeVars>>

\* performance.mark(name) and performance.mark(name, {startTime})
CallMark ==
    /\ Len(perf.markEntries) < MaxMarks
    /\ \E name \in MarkNames, startTime \in {<<>>, <<10500>>} :
        /\ startTime = <<>> => CanRead
        /\ perf' = Mark(perf, name, startTime, wall)
        /\ clockLog' = IF startTime = <<>>
                       THEN LogRead(clockLog, "mark", wall, perf'.lastNowMs)
                       ELSE clockLog
    /\ UNCHANGED <<wall, addCount, resizeMark>>
    /\ UNCHANGED <<canvasVars, audioVars, glVars, chromeVars>>

MeasureArgs ==
    { [form |-> "string", start |-> <<"a">>, end |-> <<>>, startTime |-> <<>>, endTime |-> <<>>],
      [form |-> "string", start |-> <<"a">>, end |-> <<"b">>, startTime |-> <<>>, endTime |-> <<>>],
      [form |-> "options", start |-> <<"a">>, end |-> <<"b">>, startTime |-> <<>>, endTime |-> <<>>],
      [form |-> "options", start |-> <<>>, end |-> <<>>, startTime |-> <<10500>>,
       endTime |-> <<10000>>] }

\* performance.measure(name, startOrOptions, endMark)
CallMeasure ==
    /\ Len(perf.measureEntries) < MaxMeasures
    /\ \E arg \in MeasureArgs :
        /\ MeasureReadsClock(perf, arg) => CanRead
        /\ perf' = Measure(perf, "m", arg, wall)
        /\ clockLog' = IF MeasureReadsClock(perf, arg)
                       THEN LogRead(clockLog, "measure", wall, perf'.lastNowMs)
                       ELSE clockLog
    /\ UNCHANGED <<wall, addCount, resizeMark>>
    /\ UNCHANGED <<canvasVars, audioVars, glVars, chromeVars>>

\* performance.clearMarks(name?)
CallClearMarks ==
    /\ \E name \in {<<>>, <<"">>, <<"a">>} : perf' = ClearMarks(perf, name)
    /\ UNCHANGED <<wall, clockLog, addCount, resizeMark>>
    /\ UNCHANGED <<canvasVars, audioVars, glVars, chromeVars>>

\* performance.clearMeasures(name?)
CallClearMeasures ==
    /\ \E name \in {<<>>, <<"">>, <<"m">>} : perf' = ClearMeasures(perf, name)
    /\ UNCHANGED <<wall, clockLog, addCount, resizeMark>>
    /\ UNCHANGED <<canvasVars, audioVars, glVars, chromeVars>>

\* performance.clearResourceTimings()
CallClearResourceTimings ==
    /\ perf' = ClearResourceTimings(perf)
    /\ resizeMark' = <<>>
    /\ UNCHANGED <<wall, clockLog, addCount>>
    /\ UNCHANGED <<canvasVars, audioVars, glVars, chromeVars>>

\* performance.setResourceTimingBufferSize(halves / 2)
CallSetResourceTimingBufferSize ==
    /\ \E halves \in 0..MaxSizeHalves :
        /\ perf' = SetResourceTimingBufferSize(perf, halves)
        /\ resizeMark' = IF halves <= 0 THEN resizeMark
                         ELSE IF halves % 2 = 0
                              THEN <<[k |-> halves \div 2, at |-> addCount]>>
                              ELSE <<>>
    /\ UNCHANGED <<wall, clockLog, addCount>>
    /\ UNCHANGED <<canvasVars, audioVars, glVars, chromeVars>>

\* emulator.addResourceTiming(partial)
CallAddResourceTiming ==
    /\ addCount < 3 + MaxAdds
    /\ \E name \in ResourceNames, startTime \in {<<>>, <<20000>>} :
        LET entry == [PartialEntry(name, <<>>, <<>>) EXCEPT !.startTime = startTime]
        IN  /\ startTime = <<>> => CanRead
            /\ perf' = AddResourceTiming(perf, entry, wall, addCount + 1)
            /\ clockLog' = IF startTime = <<>>
                           THEN LogRead(clockLog, "addResourceTiming", wall, perf'.lastNowMs)
                           ELSE clockLog
    /\ addCount' = addCount + 1
    /\ UNCHANGED <<wall, resizeMark>>
    /\ UNCHANGED <<canvasVars, audioVars, glVars, chromeVars>>

\* the clock and the operations that read it
ClockNext ==
    \/ ClockStep
    \/ CallNow
    \/ CallMark
    \/ CallMeasure
    \/ CallAddResourceTiming

\* the timeline operations, called while the system clock stands still
TimelineNext ==
    \/ CallNow
    \/ CallMark
    \/ CallMeasure
    \/ CallClearMarks
    \/ CallClearMeasures
    \/ CallClearResourceTimings
    \/ CallSetResourceTimingBufferSize
    \/ CallAddResourceTiming

\* the optional fields of the partial entries handed to addResourceTiming,
\* each absent or supplied (times in 1/100 ms)
PartialFields ==
    [ startTime : {<<>>, <<20000>>}, duration : {<<>>, <<-100>>},
      encodedBodySize : {<<>>, <<0>>} ]

\* emulator.addResourceTiming(partial), the partial carrying optional fields
CallAddResourceTimingFields ==
    /\ addCount < 3 + MaxAdds
    /\ \E name \in ResourceNames, f \in PartialFields :
        LET entry == [PartialEntry(name, <<>>, <<>>) EXCEPT
                         !.startTime = f.startTime, !.duration = f.duration,
                         !.encodedBodySize = f.encodedBodySize]
        IN  /\ f.startTime = <<>> => CanRead
            /\ perf' = AddResourceTiming(perf, entry, wall, addCount + 1)
            /\ clockLog' = IF f.startTime = <<>>
                           THEN LogRead(clockLog, "addResourceTiming", wall, perf'.lastNowMs)
                           ELSE clockLog
    /\ addCount' = addCount + 1
    /\ UNCHANGED <<wall, resizeMark>>
    /\ UNCHANGED <<canvasVars, audioVars, glVars, chromeVars>>

\* the operations on the resource buffer
ResourcesNext ==
    \/ CallAddResourceTimingFields
    \/ CallClearResourceTimings
    \/ CallSetResourceTimingBufferSize

\* the mark and measure operations of the user timing timeline
MarksNext ==
    \/ CallNow
    \/ CallMark
    \/ CallMeasure
    \/ CallClearMarks
    \/ CallClearMeasures

-----------------------------------------------------------------------------
(* Canvas emulator: src/src/types/creepjs-types.ts *)

\* canvases handed to create2DContext: <<width, height>>
CanvasSizes == {<<300, 150>>}
\* fillRect arguments <<x, y, w, h>>
Rects == {<<5, 5, 20, 10>>}
\* texts drawn and measured
Texts == {Str.TEXT_HI, Str.TEXT_A}
\* regions read with getImageData: <<sx, sy, sw, sh>>
Regions == {<<0, 0, 1, 1>>, <<1, 0, 1, 1>>}
\* toDataURL arguments <<type, quality>>: <<>> when omitted, quality in thousandths
DataURLArgs ==
    {<< <<>>, <<>> >>, << <<Str.IMAGE_JPEG>>, <<500>> >>, << <<Str.IMAGE_WEBP>>, <<>> >>,
     << <<Str.IMAGE_GIF>>, <<>> >>}

\* two emulator instances built from one config
SameConfigPairs == {<<c, c>> : c \in {DefaultConfig, VersionConfig}}
\* two emulator instances built from configs that differ in one identity field
VariantConfigPairs == {<<DefaultConfig, c>> : c \in IdentityVariants}

\* String.prototype.includes for one character
Includes(str, c) == \E i \in 1..Len(str) : str[i] = c

\* ChromeCanvasEmulator.hashConfig
CanvasHashConfig(cfg) ==
    StringHash(cfg.chromeVersion \o cfg.platform \o IntToString(cfg.viewport.width) \o
               Str.X \o IntToString(cfg.viewport.height))

\* Map.prototype.set on the keys of consistentResults that start with
\* "render_": a key already present keeps its place
MapSetKey(keys, key) ==
    IF \E i \in 1..Len(keys) : keys[i] = key THEN keys ELSE Append(keys, key)

\* ChromeCanvasEmulator.renderShapeChrome
RenderShapeChrome(e, type, params) ==
    LET seed       == e.seed
        paramsHash == SumSeq(params)
        operation  == Str.SHAPE \o type \o Str.UNDERSCORE \o IntToString(paramsHash) \o
                      Str.UNDERSCORE \o NumDigits(seed)
    IN  [e EXCEPT !.renderKeys = MapSetKey(@, Str.RENDER \o operation)]

\* ChromeCanvasEmulator.renderTextChrome
RenderTextChrome(e, text, x, y, font) ==
    LET seed      == e.seed
        textHash  == CharCodeSum(text)
        operation == Str.TEXT \o text \o Str.UNDERSCORE \o IntToString(x) \o Str.UNDERSCORE \o
                     IntToString(y) \o Str.UNDERSCORE \o font \o Str.UNDERSCORE \o
                     NumDigits(seed) \o Str.UNDERSCORE \o IntToString(textHash)
    IN  [e EXCEPT !.renderKeys = MapSetKey(@, Str.RENDER \o operation)]

\* mutation of CombinedSeed: salted with the identity of the emulator instance
CombinedSeed_Salted(e, operations) ==
    (NumMod(e.seed, 256) + CharCodeSum(Concat(operations)) +
     e.instance) % 256

\* generateDeterministicCanvasData: combinedSeed = seed + operationHash; it is
\* only used modulo 256, so it is reduced as soon as it is formed
CombinedSeed(e, operations) ==
    LET seed          == e.seed
        operationHash == CharCodeSum(Concat(operations))
    IN  (NumMod(seed, 256) + operationHash) % 256

\* ChromeCanvasEmulator.generateDeterministicCanvasData
GenerateDeterministicCanvasData(e, width, height, operations) ==
    LET combinedSeed == CombinedSeed(e, operations)
        Byte(i) ==
            LET x     == ((i - 1) \div 4) % width
                y     == ((i - 1) \div 4) \div width
                pixel == (x + y + combinedSeed) % 256
            IN  CASE (i - 1) % 4 = 0 -> (pixel * 123 + combinedSeed) % 256
                  [] (i - 1) % 4 = 1 -> (pixel * 456 + combinedSeed) % 256
                  [] (i - 1) % 4 = 2 -> (pixel * 789 + combinedSeed) % 256
                  [] OTHER           -> 255
    IN  [data |-> [i \in 1..(width * height * 4) |-> Byte(i)],
         width |-> width, height |-> height, colorSpace |-> "srgb"]

\* ChromeCanvasEmulator.getImageDataChrome
GetImageDataChrome(e, sx, sy, sw, sh) ==
    GenerateDeterministicCanvasData(e, sw, sh, e.renderKeys)

\* mutation of CacheKey: the origin of the region is left out of the key
CacheKey_NoOrigin(sx, sy, sw, sh) ==
    IntToString(sw) \o Str.UNDERSCORE \o IntToString(sh)

\* getImageData: const cacheKey = `${sx}_${sy}_${sw}_${sh}`
CacheKey(sx, sy, sw, sh) ==
    IntToString(sx) \o Str.UNDERSCORE \o IntToString(sy) \o Str.UNDERSCORE \o
    IntToString(sw) \o Str.UNDERSCORE \o IntToString(sh)

\* Map.prototype.get on imageDataCache: <<>> when the key is absent
CacheGet(cache, key) ==
    IF \E i \in 1..Len(cache) : cache[i].key = key
    THEN <<cache[CHOOSE i \in 1..Len(cache) : cache[i].key = key].value>>
    ELSE <<>>

\* context.getImageData: the emulator afterwards and the object returned; a
\* new ImageData object gets a reference no other object has
GetImageData(e, sx, sy, sw, sh) ==
    LET cacheKey == CacheKey(sx, sy, sw, sh)
        hit      == CacheGet(e.imageDataCache, cacheKey)
        imageData == [ref |-> <<e.instance, e.allocated + 1>>,
                      image |-> GetImageDataChrome(e, sx, sy, sw, sh)]
    IN  IF hit # <<>>
        THEN [emulator |-> e, returned |-> hit[1]]
        ELSE [emulator |-> [e EXCEPT !.allocated = @ + 1,
                                     !.imageDataCache =
                                         Append(@, [key |-> cacheKey, value |-> imageData])],
              returned |-> imageData]

\* ChromeCanvasEmulator.generateChromeCompatibleBase64
GenerateChromeCompatibleBase64(e, data, mimeType) ==
    LET seed        == e.seed
        header      == IF mimeType = Str.IMAGE_PNG \/ ~Includes(mimeType, 47)
                       THEN Str.PNG_SIGNATURE
                       ELSE IF mimeType = Str.IMAGE_JPEG THEN Str.JPEG_SIGNATURE ELSE <<>>
        contentHash == (NumMod(seed, 64) + CharCodeSum(data)) % 64
    IN  header \o [i \in 1..32 |-> Str.BASE64_CHARS[((contentHash + (i - 1) * 123) % 64) + 1]]

\* ChromeCanvasEmulator.createChromeDataURL; quality is in thousandths
CreateChromeDataURL(e, width, height, type, quality) ==
    LET seed       == e.seed
        typeStr    == IF type = <<>> \/ type[1] = <<>> THEN Str.IMAGE_PNG ELSE type[1]
        qualityStr == IF quality = <<>> \/ quality[1] = 0
                      THEN Str.ONE_DOT_ZERO ELSE MilliToString(quality[1])
        canvasData == IntToString(width) \o Str.X \o IntToString(height) \o Str.UNDERSCORE \o
                      e.config.chromeVersion \o Str.UNDERSCORE \o NumDigits(seed) \o
                      Str.Q \o qualityStr
    IN  Str.DATA \o typeStr \o Str.BASE64 \o GenerateChromeCompatibleBase64(e, canvasData, typeStr)

\* ChromeCanvasEmulator.generateConsistentTextFingerprint
GenerateConsistentTextFingerprint(cfg) ==
    LET seed == CanvasHashConfig(cfg)
    IN  [ width |-> 120 + NumMod(seed, 10), actualBoundingBoxLeft |-> 0,
          actualBoundingBoxRight |-> 120 + NumMod(seed, 10),
          actualBoundingBoxAscent |-> 11 + NumMod(seed, 3),
          actualBoundingBoxDescent |-> 3 + NumMod(seed, 2),
          fontBoundingBoxAscent |-> 14, fontBoundingBoxDescent |-> 4,
          alphabeticBaseline |-> 0, hangingBaseline |-> -11, ideographicBaseline |-> 3 ]

\* ChromeCanvasEmulator.measureTextChrome, for a non-empty text
MeasureTextChrome(e, text) ==
    LET seed      == e.seed
        baseWidth == Len(text) * 7
        variation == (NumMod(seed, 5) + text[1]) % 5
        fp        == e.textFingerprint
    IN  [ width |-> baseWidth + variation,
          actualBoundingBoxLeft |-> fp.actualBoundingBoxLeft,
          actualBoundingBoxRight |-> baseWidth + variation,
          actualBoundingBoxAscent |-> fp.actualBoundingBoxAscent,
          actualBoundingBoxDescent |-> fp.actualBoundingBoxDescent,
          fontBoundingBoxAscent |-> fp.fontBoundingBoxAscent,
          fontBoundingBoxDescent |-> fp.fontBoundingBoxDescent,
          alphabeticBaseline |-> fp.alphabeticBaseline,
          hangingBaseline |-> fp.hangingBaseline,
          ideographicBaseline |-> fp.ideographicBaseline ]

\* createMockCanvas2DContext: the fields of a context the operations read
MockContext(width, height) == [font |-> Str.FONT_DEFAULT, width |-> width, height |-> height]

\* ChromeCanvasEmulator.generateConsistentCanvasFingerprint: the draws made on
\* the virtual 200x50 canvas, whose context has font '14px Arial'
GenerateConsistentCanvasFingerprint(e) ==
    LET e1 == RenderShapeChrome(e, Str.fillRect, <<125, 1, 62, 20>>)
        e2 == RenderTextChrome(e1, Str.CANVAS_FINGERPRINT, 2, 15, Str.FONT_14PX_ARIAL)
    IN  RenderTextChrome(e2, Str.CANVAS_FINGERPRINT, 4, 17, Str.FONT_14PX_ARIAL)

\* field initialisers and constructor; `instance` is the identity of the
\* object, `seed` the value hashConfig() returns for the (never reassigned) config
ConstructCanvasEmulator(cfg, instance) ==
    GenerateConsistentCanvasFingerprint(
        [ instance |-> instance, config |-> cfg, seed |-> CanvasHashConfig(cfg),
          renderKeys |-> <<>>,
          imageDataCache |-> <<>>, contexts |-> <<>>, allocated |-> 0,
          textFingerprint |-> GenerateConsistentTextFingerprint(cfg) ])

\* ChromeCanvasEmulator.create2DContext
Create2DContext(e, size) == [e EXCEPT !.contexts = Append(@, MockContext(size[1], size[2]))]

\* context.fillRect / beginPath
FillRect(e, r) == RenderShapeChrome(e, Str.fillRect, r)
BeginPath(e) == RenderShapeChrome(e, Str.beginPath, <<>>)

\* context.fillText
FillText(e, ctx, text, x, y) == RenderTextChrome(e, text, x, y, e.contexts[ctx].font)

-----------------------------------------------------------------------------
(* Canvas emulator: operations.  Every call is made on each of the emulator
   instances, on the context with the same index, so that the instances
   receive the same sequence of calls. *)

Instances == DOMAIN canvas
Contexts == 1..Len(canvas[1].contexts)

ConstructCanvasPair(pair) ==
    /\ canvas = [i \in 1..2 |-> ConstructCanvasEmulator(pair[i], i)]
    /\ canvasLog = [images |-> {}, last |-> <<>>]

CanvasInit == \E pair \in SameConfigPairs : ConstructCanvasPair(pair)
CanvasVariantsInit == \E pair \in VariantConfigPairs : ConstructCanvasPair(pair)

CanDraw == Len(canvas[1].renderKeys) < 3 + MaxDraws

\* the latest read: what it returned on each instance
LastRead(op, args, returned) == <<[op |-> op, args |-> args, returned |-> returned]>>

\* emulator.create2DContext(canvas)
CallCreate2DContext ==
    /\ Len(canvas[1].contexts) < MaxContexts
    /\ \E size \in CanvasSizes :
        canvas' = [i \in Instances |-> Create2DContext(canvas[i], size)]
    /\ UNCHANGED canvasLog
    /\ UNCHANGED <<perfVars, audioVars, glVars, chromeVars>>

\* context.fillRect(x, y, w, h)
CallFillRect ==
    /\ CanDraw /\ Contexts # {}
    /\ \E r \in Rects : canvas' = [i \in Instances |-> FillRect(canvas[i], r)]
    /\ UNCHANGED canvasLog
    /\ UNCHANGED <<perfVars, audioVars, glVars, chromeVars>>

\* context.beginPath()
CallBeginPath ==
    /\ CanDraw /\ Contexts # {}
    /\ canvas' = [i \in Instances |-> BeginPath(canvas[i])]
    /\ UNCHANGED canvasLog
    /\ UNCHANGED <<perfVars, audioVars, glVars, chromeVars>>

\* context.fillText(text, x, y)
CallFillText ==
    /\ CanDraw
    /\ \E ctx \in Contexts, text \in Texts :
        canvas' = [i \in Instances |-> FillText(canvas[i], ctx, text, 2, 15)]
    /\ UNCHANGED canvasLog
    /\ UNCHANGED <<perfVars, audioVars, glVars, chromeVars>>

\* the ImageData handed out for region r on context ctx, with the number of
\* rendering operations recorded when that object was first handed out there
LogImage(images, ctx, r, returned, drawn) ==
    IF \E a \in images : a.ctx = ctx /\ a.region = r /\ a.returned = returned
    THEN images
    ELSE images \cup {[ctx |-> ctx, region |-> r, returned |-> returned, drawn |-> drawn]}

\* context.getImageData(sx, sy, sw, sh)
CallGetImageData ==
    /\ \E ctx \in Contexts, r \in Regions :
        LET res == [i \in Instances |-> GetImageData(canvas[i], r[1], r[2], r[3], r[4])]
            returned == [i \in Instances |-> res[i].returned]
            drawn == Len(canvas[1].renderKeys)
        IN  /\ canvas' = [i \in Instances |-> res[i].emulator]
            /\ canvasLog' =
                 [images |-> LogImage(canvasLog.images, ctx, r, returned, drawn),
                  last |-> LastRead("getImageData", <<ctx, r, drawn>>, returned)]
    /\ UNCHANGED <<perfVars, audioVars, glVars, chromeVars>>

\* context.measureText(text)
CallMeasureText ==
    /\ Contexts # {}
    /\ \E text \in Texts :
        canvasLog' = [canvasLog EXCEPT !.last =
            LastRead("measureText", text,
                     [i \in Instances |-> MeasureTextChrome(canvas[i], text)])]
    /\ UNCHANGED canvas
    /\ UNCHANGED <<perfVars, audioVars, glVars, chromeVars>>

\* canvas.toDataURL(type, quality) on the canvas of a context
CallToDataURL ==
    /\ \E ctx \in Contexts, a \in DataURLArgs :
        canvasLog' = [canvasLog EXCEPT !.last =
            LastRead("toDataURL",
                <<a[1], a[2], canvas[1].contexts[ctx].width, canvas[1].contexts[ctx].height>>,
                [i \in Instances |->
                    CreateChromeDataURL(canvas[i], canvas[i].contexts[ctx].width,
                                        canvas[i].contexts[ctx].height, a[1], a[2])])]
    /\ UNCHANGED canvas
    /\ UNCHANGED <<perfVars, audioVars, glVars, chromeVars>>

CanvasNext ==
    \/ CallCreate2DContext
    \/ CallFillRect
    \/ CallBeginPath
    \/ CallFillText
    \/ CallGetImageData
    \/ CallMeasureText
    \/ CallToDataURL

\* drawing and pixel reads only
CanvasPixelsNext ==
    \/ CallCreate2DContext
    \/ CallFillRect
    \/ CallBeginPath
    \/ CallFillText
    \/ CallGetImageData

-----------------------------------------------------------------------------
(* Audio emulator: src/src/emulators/audio-emulator.ts *)

AudioConfigs == {DefaultConfig, SampleRateConfig, MonoConfig}
\* createBuffer arguments <<numberOfChannels, length, sampleRate>>
BufferArgs == {<<2, 3, 48000>>, <<3, 2, 0>>, <<0, 1, 44100>>}
\* createOfflineAudioContext arguments <<numberOfChannels, length, sampleRate>>
OfflineArgs == {<<1, 2, 48000>>, <<2, 2, 0>>}
\* channel indices given to getChannelData
ChannelIndices == {-1, 0, 1, 2}
\* values assigned to analyser.fftSize
FftSizes == {32, 1024, 32768, 0, 16, 1000, 65536}

\* ChromeAudioEmulator.hashConfig
AudioHashConfig(cfg) ==
    StringHash(IntToString(cfg.audio.sampleRate) \o Str.PIPE \o
               MilliToString(cfg.performance.baseLatency) \o Str.PIPE \o cfg.chromeVersion)

\* number of binary digits of n (0 for n = 0)
RECURSIVE BitLength(_)
BitLength(n) == IF n = 0 THEN 0 ELSE 1 + BitLength(n \div 2)

\* A product of two numbers below 2^31 is kept as four 16-bit limbs
\* <<l0, l1, l2, l3>>, least significant first.
Normalise(l) ==
    LET c0 == l[1] \div 65536
        c1 == (l[2] + c0) \div 65536
        c2 == (l[3] + c1) \div 65536
    IN  <<l[1] % 65536, (l[2] + c0) % 65536, (l[3] + c1) % 65536, l[4] + c2>>

\* value * 1103515245, exactly; 1103515245 = 16838 * 65536 + 20077
TimesMultiplier(value) ==
    LET v0 == value % 65536
        v1 == value \div 65536
    IN  Normalise(<<v0 * 20077, v0 * 16838 + v1 * 20077, v1 * 16838, 0>>)

\* the nearest IEEE-754 double (53-bit significand, ties to even) of a
\* non-negative integer below 2^63 held in limbs
RoundToDouble(l) ==
    LET s    == IF l[4] < 32 THEN 0 ELSE BitLength(l[4]) - 5
        m    == 2 ^ s
        r    == l[1] % m
        odd  == (l[1] \div m) % 2 = 1
        up   == s > 0 /\ (2 * r > m \/ (2 * r = m /\ odd))
    IN  Normalise(<<l[1] - r + (IF up THEN m ELSE 0), l[2], l[3], l[4]>>)

\* createBuffer: value = (value * 1103515245 + 12345) & 0x7fffffff, in
\* double-precision arithmetic: the product and the sum are each rounded
LcgStep(value) ==
    LET product == RoundToDouble(TimesMultiplier(value))
        sum     == RoundToDouble(Normalise(<<product[1] + 12345, product[2], product[3],
                                             product[4]>>))
    IN  (sum[2] % 32768) * 65536 + sum[1]

\* arr[i] = ((value % 2000) / 2000 - 0.5) * 0.002, in units of 10^-6
SampleOf(value) == (value % 2000) - 1000

\* the samples of one channel: `length` rounds of the generator from `value`
RECURSIVE ChannelSamples(_, _)
ChannelSamples(value, length) ==
    IF length = 0 THEN <<>>
    ELSE LET next == LcgStep(value)
         IN  <<SampleOf(next)>> \o ChannelSamples(next, length - 1)

\* createBuffer: Math.max(1, Math.min(numberOfChannels, maxChannelCount))
ChannelCount(numberOfChannels, maxChannelCount) ==
    Max(1, Min(numberOfChannels, maxChannelCount))

\* ChromeAudioEmulator.createBuffer
CreateBuffer(cfg, seed, numberOfChannels, length, sampleRate) ==
    LET channels == ChannelCount(numberOfChannels, cfg.audio.maxChannelCount)
        rate     == IF sampleRate = 0 THEN cfg.audio.sampleRate ELSE sampleRate
    IN  [ sampleRate |-> rate, length |-> length, numberOfChannels |-> channels,
          dataPerChannel |->
              [c \in 1..channels |->
                  ChannelSamples(NumMod(NumAdd(seed, (c - 1) * 17), 9973), length)] ]

\* mutation of GetChannelData: the upper bound check is off by one
GetChannelData_OffByOne(buffer, channel) ==
    IF channel < 0 \/ channel > Len(buffer.dataPerChannel)
    THEN [error |-> "RangeError"]
    ELSE IF channel + 1 \in DOMAIN buffer.dataPerChannel
         THEN [data |-> buffer.dataPerChannel[channel + 1]]
         ELSE [data |-> "undefined"]

\* buffer.getChannelData: what the call throws or returns
GetChannelData(buffer, channel) ==
    IF channel < 0 \/ channel >= Len(buffer.dataPerChannel)
    THEN [error |-> "RangeError"]
    ELSE IF channel + 1 \in DOMAIN buffer.dataPerChannel
         THEN [data |-> buffer.dataPerChannel[channel + 1]]
         ELSE [data |-> "undefined"]

\* field initialisers and constructor
ConstructAudioEmulator(cfg) == [config |-> cfg, globalGraphSignature |-> 0, contexts |-> <<>>]

\* ChromeAudioEmulator.createAudioContext: what the closures of the context hold
CreateAudioContext(e) ==
    [e EXCEPT !.contexts =
        Append(@, [kind |-> "realtime", seed |-> AudioHashConfig(e.config),
                   state |-> "suspended", analysers |-> <<>>,
                   onstatechange |-> "null", lastCall |-> <<>>])]

\* ChromeAudioEmulator.createOfflineAudioContext
CreateOfflineAudioContext(e, numberOfChannels, length, sampleRate) ==
    LET channels == Max(1, numberOfChannels)
        rate     == IF sampleRate = 0 THEN e.config.audio.sampleRate ELSE sampleRate
        seed     == NumAdd(AudioHashConfig(e.config), channels * 31 + length * 7)
    IN  [e EXCEPT !.globalGraphSignature = @ + 123,
                  !.contexts =
                      Append(@, [kind |-> "offline", seed |-> seed, length |-> length,
                                 numberOfChannels |-> channels, sampleRate |-> rate,
                                 graphSignature |-> e.globalGraphSignature + 123,
                                 connects |-> 0])]

\* the `connect` closure of an offline context, shared by all its nodes;
\* `connects` is history: the number of connect calls made so far
Connect(c) == [c EXCEPT !.graphSignature = @ + 17, !.connects = @ + 1]

\* oac.startRendering: the buffer the promise resolves to
StartRendering(e, ctx) ==
    LET c == e.contexts[ctx]
    IN  CreateBuffer(e.config, NumAdd(c.seed, c.graphSignature),
                     c.numberOfChannels, c.length, c.sampleRate)

\* context.createBuffer on a realtime or an offline context
ContextCreateBuffer(e, ctx, numberOfChannels, length, sampleRate) ==
    CreateBuffer(e.config, e.contexts[ctx].seed, numberOfChannels, length, sampleRate)

\* `if (this.onstatechange) this.onstatechange()` at the end of resume, suspend
\* and close, c being the context after the assignment to internalState:
\* the states the callback observes, one per invocation
Notify(c) == IF c.onstatechange = "null" THEN <<>> ELSE <<c.state>>

\* the body of resume / suspend / close; lastCall is history: the call made
\* last on the context, the states its callback invocations observed and how
\* the returned promise settled
Transition(c, call, state) ==
    LET updated == [c EXCEPT !.state = state]
    IN  [updated EXCEPT !.lastCall = <<[call |-> call, notified |-> Notify(updated),
                                        settled |-> "fulfilled"]>>]

\* mutation of Resume: the callback runs before internalState is assigned
Resume_NotifyFirst(c) ==
    [c EXCEPT !.state = "running",
              !.lastCall = <<[call |-> "resume", notified |-> Notify(c),
                              settled |-> "fulfilled"]>>]

\* context.resume / suspend / close
Resume(c)  == Transition(c, "resume", "running")
Suspend(c) == Transition(c, "suspend", "suspended")
Close(c)   == Transition(c, "close", "closed")

\* context.onstatechange = callback, a function or null
SetOnStateChange(c, callback) == [c EXCEPT !.onstatechange = callback]

\* createAnalyserNode: `allowed`
AllowedFftSizes == {32, 64, 128, 256, 512, 1024, 2048, 4096, 8192, 16384, 32768}

\* ChromeAudioEmulator.createAnalyserNode; `assigned` is history: <<>> or the
\* value of the latest assignment to fftSize
CreateAnalyserNode == [fftSize |-> 2048, smoothing |-> 80, assigned |-> <<>>]

\* mutation of SetFftSize: the value is stored unchecked
SetFftSize_Unchecked(a, val) == [a EXCEPT !.fftSize = val, !.assigned = <<val>>]

\* analyser.fftSize = val
SetFftSize(a, val) ==
    [a EXCEPT !.fftSize = IF val \in AllowedFftSizes THEN val ELSE 2048,
              !.assigned = <<val>>]

\* analyser.frequencyBinCount
FrequencyBinCount(a) == a.fftSize \div 2

\* two Audio emulators constructed independently from one config; no context,
\* buffer or read yet
AudioInit ==
    /\ \E cfg \in AudioConfigs :
        audio = <<ConstructAudioEmulator(cfg), ConstructAudioEmulator(cfg)>>
    /\ audioLog = [buffers |-> {}, reads |-> {}, renders |-> {}]

ContextCount == Len(audio[1].contexts) + Len(audio[2].contexts)

\* emulator.createAudioContext()
CallCreateAudioContext ==
    /\ ContextCount < MaxAudioContexts
    /\ \E i \in DOMAIN audio : audio' = [audio EXCEPT ![i] = CreateAudioContext(@)]
    /\ UNCHANGED <<audioLog, perfVars, canvasVars, glVars, chromeVars>>

\* emulator.createOfflineAudioContext(numberOfChannels, length, sampleRate)
CallCreateOfflineAudioContext ==
    /\ ContextCount < MaxAudioContexts
    /\ \E i \in DOMAIN audio, a \in OfflineArgs :
        audio' = [audio EXCEPT ![i] = CreateOfflineAudioContext(@, a[1], a[2], a[3])]
    /\ UNCHANGED <<audioLog, perfVars, canvasVars, glVars, chromeVars>>

\* context.createBuffer(numberOfChannels, length, sampleRate); the history
\* keeps the buffer with the call that made it
CallCreateBuffer ==
    /\ Cardinality(audioLog.buffers) < MaxBuffers
    /\ \E i \in DOMAIN audio :
        \E ctx \in DOMAIN audio[i].contexts, a \in BufferArgs :
            LET earlier == {b \in audioLog.buffers :
                               b.emulator = i /\ b.context = ctx /\ b.args = a}
                made    == [ emulator |-> i, context |-> ctx,
                             kind |-> audio[i].contexts[ctx].kind, args |-> a,
                             call |-> Cardinality(earlier) + 1,
                             buffer |-> ContextCreateBuffer(audio[i], ctx, a[1], a[2], a[3]) ]
            IN  audioLog' = [audioLog EXCEPT !.buffers = @ \cup {made}]
    /\ UNCHANGED <<audio, perfVars, canvasVars, glVars, chromeVars>>

\* buffer.getChannelData(channel) on a buffer made earlier
CallGetChannelData ==
    /\ Cardinality(audioLog.reads) < MaxChannelReads
    /\ \E b \in audioLog.buffers, channel \in ChannelIndices :
        LET earlier == {r \in audioLog.reads : r.of = b /\ r.channel = channel}
            read    == [ of |-> b, channel |-> channel, call |-> Cardinality(earlier) + 1,
                         outcome |-> GetChannelData(b.buffer, channel) ]
        IN  audioLog' = [audioLog EXCEPT !.reads = @ \cup {read}]
    /\ UNCHANGED <<audio, perfVars, canvasVars, glVars, chromeVars>>

AudioNext ==
    \/ CallCreateAudioContext
    \/ CallCreateOfflineAudioContext
    \/ CallCreateBuffer
    \/ CallGetChannelData

\* the realtime contexts of emulator i
Realtime(i) == {ctx \in DOMAIN audio[i].contexts : audio[i].contexts[ctx].kind = "realtime"}

\* context.resume()
CallResume ==
    /\ \E i \in DOMAIN audio : \E ctx \in Realtime(i) :
        audio' = [audio EXCEPT ![i].contexts[ctx] = Resume(@)]
    /\ UNCHANGED <<audioLog, perfVars, canvasVars, glVars, chromeVars>>

\* context.suspend()
CallSuspend ==
    /\ \E i \in DOMAIN audio : \E ctx \in Realtime(i) :
        audio' = [audio EXCEPT ![i].contexts[ctx] = Suspend(@)]
    /\ UNCHANGED <<audioLog, perfVars, canvasVars, glVars, chromeVars>>

\* context.close()
CallClose ==
    /\ \E i \in DOMAIN audio : \E ctx \in Realtime(i) :
        audio' = [audio EXCEPT ![i].contexts[ctx] = Close(@)]
    /\ UNCHANGED <<audioLog, perfVars, canvasVars, glVars, chromeVars>>

\* the analysers made so far, as <<emulator, context, index>>
Analysers ==
    {<<i, ctx, k>> \in (DOMAIN audio) \X (1..MaxAudioContexts) \X (1..MaxAnalysers) :
        /\ ctx \in Realtime(i)
        /\ k \in DOMAIN audio[i].contexts[ctx].analysers}

\* context.createAnalyser()
CallCreateAnalyser ==
    /\ Cardinality(Analysers) < MaxAnalysers
    /\ \E i \in DOMAIN audio : \E ctx \in Realtime(i) :
        audio' = [audio EXCEPT ![i].contexts[ctx].analysers = Append(@, CreateAnalyserNode)]
    /\ UNCHANGED <<audioLog, perfVars, canvasVars, glVars, chromeVars>>

\* analyser.fftSize = val
CallSetFftSize ==
    /\ \E a \in Analysers, val \in FftSizes :
        audio' = [audio EXCEPT ![a[1]].contexts[a[2]].analysers[a[3]] = SetFftSize(@, val)]
    /\ UNCHANGED <<audioLog, perfVars, canvasVars, glVars, chromeVars>>

AudioContextNext ==
    \/ CallCreateAudioContext
    \/ CallResume
    \/ CallSuspend
    \/ CallClose
    \/ CallCreateAnalyser
    \/ CallSetFftSize

\* context.onstatechange = callback
CallSetOnStateChange ==
    /\ \E i \in DOMAIN audio : \E ctx \in Realtime(i), callback \in {"null", "function"} :
        audio' = [audio EXCEPT ![i].contexts[ctx] = SetOnStateChange(@, callback)]
    /\ UNCHANGED <<audioLog, perfVars, canvasVars, glVars, chromeVars>>

\* the state of a realtime context and its state-change callback
AudioStateNext ==
    \/ CallCreateAudioContext
    \/ CallSetOnStateChange
    \/ CallResume
    \/ CallSuspend
    \/ CallClose

\* the offline contexts of emulator i
Offline(i) == {ctx \in DOMAIN audio[i].contexts : audio[i].contexts[ctx].kind = "offline"}

\* node.connect(dest) on a node made by an offline context
CallConnect ==
    /\ \E i \in DOMAIN audio : \E ctx \in Offline(i) :
        /\ audio[i].contexts[ctx].connects < MaxConnects
        /\ audio' = [audio EXCEPT ![i].contexts[ctx] = Connect(@)]
    /\ UNCHANGED <<audioLog, perfVars, canvasVars, glVars, chromeVars>>

\* oac.startRendering(); the history keeps the buffer with the arguments the
\* context was created from and the connect calls made before the render
CallStartRendering ==
    /\ Cardinality(audioLog.renders) < MaxRenders
    /\ \E i \in DOMAIN audio : \E ctx \in Offline(i) :
        LET c        == audio[i].contexts[ctx]
            rendered == [ emulator |-> i, context |-> ctx, args |-> <<c.numberOfChannels, c.length, c.sampleRate>>,
                          connects |-> c.connects,
                          buffer |-> StartRendering(audio[i], ctx) ]
        IN  audioLog' = [audioLog EXCEPT !.renders = @ \cup {rendered}]
    /\ UNCHANGED <<audio, perfVars, canvasVars, glVars, chromeVars>>

OfflineNext ==
    \/ CallCreateOfflineAudioContext
    \/ CallConnect
    \/ CallStartRendering

-----------------------------------------------------------------------------
(* WebGL emulator: ChromeWebGLEmulator in src/src/emulators/audio-emulator.ts *)

GLConfigs == {DefaultConfig, RendererConfig}
\* createShader(type): VERTEX_SHADER, FRAGMENT_SHADER
ShaderTypes == {35633, 35632}
\* values Math.random() may return, as distinct tokens
RandomValues == {1, 2}

\* ChromeWebGLEmulator.hashConfig
WebGLHashConfig(cfg) ==
    StringHash(cfg.webgl.vendor \o cfg.webgl.renderer \o cfg.chromeVersion)

\* ChromeWebGLEmulator.generateConsistentId; subtype 0 when not given
GenerateConsistentId(cfg, type, subtype) ==
    LET seed        == WebGLHashConfig(cfg)
        typeHash    == CharCodeSum(type)
        subtypeHash == subtype
        id          == NumMod(NumAdd(seed, typeHash + subtypeHash), 1000000)
    IN  type \o Str.UNDERSCORE \o IntToString(id)

\* the id of the object a creating call returns: a string from
\* generateConsistentId or the number Math.random() returns during the call
\* (`random`, held as a one-element sequence)
CreatedId(cfg, call, subtype, random) ==
    CASE call = "createShader" ->
             [type |-> "string", value |-> GenerateConsistentId(cfg, Str.shader, subtype)]
      [] call = "createProgram" ->
             [type |-> "string", value |-> GenerateConsistentId(cfg, Str.program, 0)]
      [] call = "createVertexArrayOES" ->
             [type |-> "string", value |-> GenerateConsistentId(cfg, Str.vao, 0)]
      [] call = "createQueryEXT" ->
             [type |-> "string", value |-> GenerateConsistentId(cfg, Str.query, 0)]
      [] call = "createBuffer"  -> [type |-> "number", value |-> <<random>>]
      [] call = "createTexture" -> [type |-> "number", value |-> <<random>>]

\* a JavaScript value: its type and what it holds, as a sequence
Value(type, seq) == [type |-> type, value |-> seq]
Null == Value("null", <<>>)
Undefined == Value("undefined", <<>>)

\* ToBoolean, as the operator || applies it
Truthy(v) ==
    CASE v.type \in {"null", "undefined"} -> FALSE
      [] v.type = "number"  -> v.value # <<0>>
      [] v.type = "string"  -> v.value # <<>>
      [] v.type = "boolean" -> v.value # <<FALSE>>
      [] OTHER -> TRUE

\* Map.prototype.set on a Map held as the sequence of its [key, value]
\* entries in insertion order: a key already present keeps its place
MapSet(map, key, value) ==
    IF \E k \in DOMAIN map : map[k].key = key
    THEN [k \in DOMAIN map |-> IF map[k].key = key THEN [key |-> key, value |-> value]
                                                   ELSE map[k]]
    ELSE Append(map, [key |-> key, value |-> value])

\* entries.forEach(entry => map.set(entry.key, entry.value)), from entry i on
RECURSIVE MapSetAll(_, _, _)
MapSetAll(map, entries, i) ==
    IF i > Len(entries) THEN map
    ELSE MapSetAll(MapSet(map, entries[i].key, entries[i].value), entries, i + 1)

\* Map.prototype.get
MapGet(map, key) ==
    IF \E k \in DOMAIN map : map[k].key = key
    THEN map[CHOOSE k \in DOMAIN map : map[k].key = key].value
    ELSE Undefined

\* the WebGL constants of the mock context
GL ==
    [ VERSION |-> 7938, VENDOR |-> 7936, RENDERER |-> 7937,
      SHADING_LANGUAGE_VERSION |-> 35724, MAX_VIEWPORT_DIMS |-> 3386,
      MAX_TEXTURE_SIZE |-> 3379, MAX_CUBE_MAP_TEXTURE_SIZE |-> 34076,
      MAX_RENDERBUFFER_SIZE |-> 34024, MAX_VERTEX_ATTRIBS |-> 34921,
      MAX_VERTEX_UNIFORM_VECTORS |-> 36347, MAX_VARYING_VECTORS |-> 36348,
      MAX_VERTEX_TEXTURE_IMAGE_UNITS |-> 35660, MAX_FRAGMENT_UNIFORM_VECTORS |-> 36349,
      MAX_TEXTURE_IMAGE_UNITS |-> 34930, MAX_COMBINED_TEXTURE_IMAGE_UNITS |-> 35661,
      ALIASED_LINE_WIDTH_RANGE |-> 33902, ALIASED_POINT_SIZE_RANGE |-> 33901,
      RED_BITS |-> 3410, GREEN_BITS |-> 3411, BLUE_BITS |-> 3412, ALPHA_BITS |-> 3413,
      DEPTH_BITS |-> 3414, STENCIL_BITS |-> 3415, SUBPIXEL_BITS |-> 3408,
      SAMPLES |-> 32937, SAMPLE_BUFFERS |-> 32936,
      \* the enums the shader and program getters compare pname with
      COMPILE_STATUS |-> 35713, LINK_STATUS |-> 35714, INFO_LOG_LENGTH |-> 35716,
      ACTIVE_ATTRIBUTES |-> 35719, ACTIVE_UNIFORMS |-> 35718 ]

\* setupChromeParameters: chromeParams, in the order of the source
ChromeParams(cfg) ==
    << [key |-> GL.VERSION,  value |-> Value("string", cfg.webgl.version)],
       [key |-> GL.VENDOR,   value |-> Value("string", cfg.webgl.vendor)],
       [key |-> GL.RENDERER, value |-> Value("string", cfg.webgl.renderer)],
       [key |-> GL.SHADING_LANGUAGE_VERSION, value |-> Value("string", Str.GLSL_VERSION)],
       [key |-> GL.MAX_VIEWPORT_DIMS, value |-> Value("Int32Array", <<16384, 16384>>)],
       [key |-> GL.MAX_TEXTURE_SIZE,  value |-> Value("number", <<16384>>)],
       [key |-> GL.MAX_CUBE_MAP_TEXTURE_SIZE, value |-> Value("number", <<16384>>)],
       [key |-> GL.MAX_RENDERBUFFER_SIZE, value |-> Value("number", <<16384>>)],
       [key |-> GL.MAX_VERTEX_ATTRIBS, value |-> Value("number", <<16>>)],
       [key |-> GL.MAX_VERTEX_UNIFORM_VECTORS, value |-> Value("number", <<1024>>)],
       [key |-> GL.MAX_VARYING_VECTORS, value |-> Value("number", <<30>>)],
       [key |-> GL.MAX_VERTEX_TEXTURE_IMAGE_UNITS, value |-> Value("number", <<16>>)],
       [key |-> GL.MAX_FRAGMENT_UNIFORM_VECTORS, value |-> Value("number", <<1024>>)],
       [key |-> GL.MAX_TEXTURE_IMAGE_UNITS, value |-> Value("number", <<16>>)],
       [key |-> GL.MAX_COMBINED_TEXTURE_IMAGE_UNITS, value |-> Value("number", <<32>>)],
       [key |-> GL.ALIASED_LINE_WIDTH_RANGE, value |-> Value("Float32Array", <<1, 1>>)],
       [key |-> GL.ALIASED_POINT_SIZE_RANGE, value |-> Value("Float32Array", <<1, 1024>>)],
       [key |-> GL.RED_BITS,   value |-> Value("number", <<8>>)],
       [key |-> GL.GREEN_BITS, value |-> Value("number", <<8>>)],
       [key |-> GL.BLUE_BITS,  value |-> Value("number", <<8>>)],
       [key |-> GL.ALPHA_BITS, value |-> Value("number", <<8>>)],
       [key |-> GL.DEPTH_BITS, value |-> Value("number", <<24>>)],
       [key |-> GL.STENCIL_BITS, value |-> Value("number", <<8>>)],
       [key |-> GL.SUBPIXEL_BITS, value |-> Value("number", <<4>>)],
       [key |-> GL.SAMPLES, value |-> Value("number", <<0>>)],
       [key |-> GL.SAMPLE_BUFFERS, value |-> Value("number", <<0>>)] >>

\* configureExtensions: chromeExtensions
ChromeExtensions ==
    << "ANGLE_instanced_arrays", "EXT_blend_minmax", "EXT_color_buffer_half_float",
       "EXT_disjoint_timer_query", "EXT_float_blend", "EXT_frag_depth",
       "EXT_shader_texture_lod", "EXT_texture_compression_bptc",
       "EXT_texture_compression_rgtc", "EXT_texture_filter_anisotropic",
       "WEBKIT_EXT_texture_filter_anisotropic", "EXT_sRGB", "KHR_parallel_shader_compile",
       "OES_element_index_uint", "OES_fbo_render_mipmap", "OES_standard_derivatives",
       "OES_texture_float", "OES_texture_float_linear", "OES_texture_half_float",
       "OES_texture_half_float_linear", "OES_vertex_array_object",
       "WEBGL_color_buffer_float", "WEBGL_compressed_texture_s3tc",
       "WEBGL_compressed_texture_s3tc_srgb", "WEBGL_debug_renderer_info",
       "WEBGL_debug_shaders", "WEBGL_depth_texture", "WEBGL_draw_buffers",
       "WEBGL_lose_context" >>

\* createMockExtension: every branch returns an object literal; the object
\* is held as the name it was made for
CreateMockExtension(extName) == Value("object", <<extName>>)

\* field initialisers and constructor: no context yet, empty Maps
\* (initializeChromeExtensions and initializeChromeParameters are empty)
ConstructWebGLEmulator(cfg) ==
    [config |-> cfg, context |-> 0, parameters |-> <<>>, extensions |-> <<>>,
     shaderCache |-> <<>>]

\* ChromeWebGLEmulator.createContext: this.context is the newest context;
\* setupChromeParameters and configureExtensions fill the Maps of the emulator
CreateContext(e) ==
    [e EXCEPT !.context = @ + 1,
              !.parameters = MapSetAll(@, ChromeParams(e.config), 1),
              !.extensions =
                  MapSetAll(@, [k \in DOMAIN ChromeExtensions |->
                                   [key |-> ChromeExtensions[k],
                                    value |-> CreateMockExtension(ChromeExtensions[k])]], 1)]

\* getParameter: this.parameters.get(pname) || null
GetParameter(e, pname) ==
    LET v == MapGet(e.parameters, pname)
    IN  IF Truthy(v) THEN v ELSE Null

\* mutation of GetExtension: an object is made for whatever name is asked
GetExtension_Any(e, name) == CreateMockExtension(name)

\* getExtension: this.extensions.get(name) || null
GetExtension(e, name) ==
    LET v == MapGet(e.extensions, name)
    IN  IF Truthy(v) THEN v ELSE Null

\* getSupportedExtensions: Array.from(this.extensions.keys())
GetSupportedExtensions(e) == [k \in DOMAIN e.extensions |-> e.extensions[k].key]

\* mutation of GetShaderParameter: COMPILE_STATUS is what compileShader left
GetShaderParameter_Tracked(shader, pname) ==
    CASE pname = GL.COMPILE_STATUS  -> Value("boolean", <<shader.props.compiled>>)
      [] pname = GL.INFO_LOG_LENGTH -> Value("number", <<0>>)
      [] OTHER -> Value("boolean", <<TRUE>>)

\* getShaderParameter
GetShaderParameter(shader, pname) ==
    CASE pname = GL.COMPILE_STATUS  -> Value("boolean", <<TRUE>>)
      [] pname = GL.INFO_LOG_LENGTH -> Value("number", <<0>>)
      [] OTHER -> Value("boolean", <<TRUE>>)

\* getProgramParameter
GetProgramParameter(program, pname) ==
    CASE pname = GL.LINK_STATUS       -> Value("boolean", <<TRUE>>)
      [] pname = GL.INFO_LOG_LENGTH   -> Value("number", <<0>>)
      [] pname = GL.ACTIVE_ATTRIBUTES -> Value("number", <<16>>)
      [] pname = GL.ACTIVE_UNIFORMS   -> Value("number", <<8>>)
      [] OTHER -> Value("boolean", <<TRUE>>)

\* getParameter(pname): enums of the table, two of them with the value 0, and
\* enums the table does not hold
ParameterNames ==
    {GL.VENDOR, GL.MAX_TEXTURE_SIZE, GL.MAX_VIEWPORT_DIMS, GL.SAMPLES, GL.SAMPLE_BUFFERS,
     GL.COMPILE_STATUS, 0}
\* getExtension(name): supported names and names that are not
ExtensionNames ==
    {"WEBGL_debug_renderer_info", "OES_vertex_array_object", "UNSUPPORTED_EXTENSION", ""}
\* shaderSource(shader, source): 'v'
ShaderSources == {<<118>>}
\* getShaderParameter(shader, pname), getProgramParameter(program, pname)
StatusNames == {GL.COMPILE_STATUS, GL.LINK_STATUS}

\* ChromeWebGLEmulator.createConsistentRenderingResult: the four bytes of the
\* 1x1 Uint8Array
CreateConsistentRenderingResult(cfg) ==
    LET seed == NumMod(WebGLHashConfig(cfg), 256)
    IN  <<(seed * 123) % 256, (seed * 456) % 256, (seed * 789) % 256, 255>>

\* context.readPixels(x, y, width, height, format, type, pixels): the view
\* `pixels` after the call; TypedArray.prototype.set writes the elements of
\* consistentData.slice(0, pixels.length) from index 0
ReadPixels(e, pixels) ==
    LET consistentData == CreateConsistentRenderingResult(e.config)
        source         == SubSeq(consistentData, 1, Min(4, Len(pixels.data)))
    IN  IF pixels.kind = "Uint8Array"
        THEN [pixels EXCEPT !.data =
                 [k \in 1..Len(@) |-> IF k <= Len(source) THEN source[k] ELSE @[k]]]
        ELSE pixels

\* the views handed to readPixels, with the content they hold before the call
PixelViews ==
    { [kind |-> "Uint8Array", data |-> <<>>],
      [kind |-> "Uint8Array", data |-> <<0, 0>>],
      [kind |-> "Uint8Array", data |-> <<0, 0, 0, 0>>],
      [kind |-> "Uint8Array", data |-> <<9, 9, 9, 9>>],
      [kind |-> "Uint8Array", data |-> <<0, 0, 0, 0, 0, 0, 0, 0>>],
      [kind |-> "Uint8Array", data |-> <<9, 9, 9, 9, 9, 9, 9, 9>>],
      [kind |-> "Float32Array", data |-> <<0>>] }

\* two WebGL emulators constructed independently from one config
GLInit ==
    /\ \E cfg \in GLConfigs :
        gl = <<ConstructWebGLEmulator(cfg), ConstructWebGLEmulator(cfg)>>
    /\ glLog = {}
    /\ glRead = <<>>

\* one WebGL emulator constructed from the default config
GLInitOne ==
    /\ gl = <<ConstructWebGLEmulator(DefaultConfig)>>
    /\ glLog = {}
    /\ glRead = <<>>

\* emulator.createContext(canvas)
CallCreateContext ==
    /\ \E i \in DOMAIN gl :
        /\ gl[i].context < MaxGLContexts
        /\ gl' = [gl EXCEPT ![i] = CreateContext(@)]
    /\ UNCHANGED <<glLog, glRead, perfVars, canvasVars, audioVars, chromeVars>>

\* every created object is kept with the call that made it, its id, and
\* the properties set on it later (compiled, linked, shaders: absent so far)
LogCreated(i, ctx, call, subtype, random) ==
    LET earlier == {o \in glLog : o.emulator = i /\ o.context = ctx /\ o.call = call
                                    /\ o.subtype = subtype}
    IN  /\ Cardinality(glLog) < MaxGLObjects
        /\ glLog' = glLog \cup
               {[ emulator |-> i, context |-> ctx, call |-> call, subtype |-> subtype,
                  nth |-> Cardinality(earlier) + 1,
                  id |-> CreatedId(gl[i].config, call, subtype, random),
                  props |-> [compiled |-> FALSE, linked |-> FALSE, shaders |-> <<>>] ]}
        /\ UNCHANGED <<gl, glRead, perfVars, canvasVars, audioVars, chromeVars>>

\* context.createShader(type)
CallCreateShader ==
    \E i \in DOMAIN gl : \E ctx \in 1..gl[i].context, type \in ShaderTypes :
        LogCreated(i, ctx, "createShader", type, 0)

\* context.createProgram()
CallCreateProgram ==
    \E i \in DOMAIN gl : \E ctx \in 1..gl[i].context :
        LogCreated(i, ctx, "createProgram", 0, 0)

\* context.createBuffer()
CallGLCreateBuffer ==
    \E i \in DOMAIN gl : \E ctx \in 1..gl[i].context, random \in RandomValues :
        LogCreated(i, ctx, "createBuffer", 0, random)

\* context.createTexture()
CallCreateTexture ==
    \E i \in DOMAIN gl : \E ctx \in 1..gl[i].context, random \in RandomValues :
        LogCreated(i, ctx, "createTexture", 0, random)

\* context.getExtension('EXT_disjoint_timer_query').createQueryEXT()
CallCreateQueryEXT ==
    \E i \in DOMAIN gl : \E ctx \in 1..gl[i].context :
        LogCreated(i, ctx, "createQueryEXT", 0, 0)

\* context.getExtension('OES_vertex_array_object').createVertexArrayOES()
CallCreateVertexArrayOES ==
    \E i \in DOMAIN gl : \E ctx \in 1..gl[i].context :
        LogCreated(i, ctx, "createVertexArrayOES", 0, 0)

\* the objects createShader and createProgram handed out
Shaders  == {o \in glLog : o.call = "createShader"}
Programs == {o \in glLog : o.call = "createProgram"}

\* a query on context ctx of emulator i returned `result`
LogQuery(i, ctx, call, arg, result) ==
    /\ glRead' = <<[emulator |-> i, context |-> ctx, call |-> call, arg |-> arg,
                    result |-> result]>>
    /\ UNCHANGED <<gl, glLog, perfVars, canvasVars, audioVars, chromeVars>>

\* context.getParameter(pname)
CallGetParameter ==
    \E i \in DOMAIN gl : \E ctx \in 1..gl[i].context, pname \in ParameterNames :
        LogQuery(i, ctx, "getParameter", pname, GetParameter(gl[i], pname))

\* context.getExtension(name)
CallGetExtension ==
    \E i \in DOMAIN gl : \E ctx \in 1..gl[i].context, name \in ExtensionNames :
        LogQuery(i, ctx, "getExtension", name, GetExtension(gl[i], name))

\* context.shaderSource(shader, source)
CallShaderSource ==
    /\ \E i \in DOMAIN gl : \E shader \in Shaders, source \in ShaderSources :
        /\ gl[i].context > 0
        /\ gl' = [gl EXCEPT ![i].shaderCache =
                             MapSet(@, shader.id.value, Value("string", source))]
    /\ UNCHANGED <<glLog, glRead, perfVars, canvasVars, audioVars, chromeVars>>

\* context.compileShader(shader)
CallCompileShader ==
    /\ \E shader \in Shaders :
        /\ \E i \in DOMAIN gl : gl[i].context > 0
        /\ glLog' = (glLog \ {shader}) \cup {[shader EXCEPT !.props.compiled = TRUE]}
    /\ UNCHANGED <<gl, glRead, perfVars, canvasVars, audioVars, chromeVars>>

\* context.attachShader(program, shader): the shader is held by the
\* emulator, context, type and rank that identify it
CallAttachShader ==
    /\ \E program \in Programs, shader \in Shaders :
        /\ \E i \in DOMAIN gl : gl[i].context > 0
        /\ Len(program.props.shaders) < MaxAttached
        /\ glLog' = (glLog \ {program}) \cup
               {[program EXCEPT !.props.shaders =
                     Append(@, <<shader.emulator, shader.context, shader.subtype,
                                 shader.nth>>)]}
    /\ UNCHANGED <<gl, glRead, perfVars, canvasVars, audioVars, chromeVars>>

\* context.linkProgram(program)
CallLinkProgram ==
    /\ \E program \in Programs :
        /\ \E i \in DOMAIN gl : gl[i].context > 0
        /\ glLog' = (glLog \ {program}) \cup {[program EXCEPT !.props.linked = TRUE]}
    /\ UNCHANGED <<gl, glRead, perfVars, canvasVars, audioVars, chromeVars>>

\* context.getShaderParameter(shader, pname)
CallGetShaderParameter ==
    \E i \in DOMAIN gl : \E ctx \in 1..gl[i].context, shader \in Shaders,
                            pname \in StatusNames :
        LogQuery(i, ctx, "getShaderParameter", <<shader, pname>>,
                GetShaderParameter(shader, pname))

\* context.getShaderInfoLog(shader)
CallGetShaderInfoLog ==
    \E i \in DOMAIN gl : \E ctx \in 1..gl[i].context, shader \in Shaders :
        LogQuery(i, ctx, "getShaderInfoLog", <<shader>>, Value("string", <<>>))

\* context.getProgramParameter(program, pname)
CallGetProgramParameter ==
    \E i \in DOMAIN gl : \E ctx \in 1..gl[i].context, program \in Programs,
                            pname \in StatusNames :
        LogQuery(i, ctx, "getProgramParameter", <<program, pname>>,
                GetProgramParameter(program, pname))

\* context.getProgramInfoLog(program)
CallGetProgramInfoLog ==
    \E i \in DOMAIN gl : \E ctx \in 1..gl[i].context, program \in Programs :
        LogQuery(i, ctx, "getProgramInfoLog", <<program>>, Value("string", <<>>))

WebGLNext ==
    \/ CallCreateContext
    \/ CallCreateShader
    \/ CallCreateProgram
    \/ CallGLCreateBuffer
    \/ CallCreateTexture
    \/ CallCreateQueryEXT
    \/ CallCreateVertexArrayOES

\* context.clear(mask), context.drawArrays(mode, first, count),
\* context.enable(cap): empty bodies
CallRender ==
    \E i \in DOMAIN gl : \E ctx \in 1..gl[i].context, call \in {"clear", "drawArrays", "enable"} :
        LogQuery(i, ctx, call, <<>>, Undefined)

\* context.readPixels(0, 0, 1, 1, RGBA, UNSIGNED_BYTE, pixels)
CallReadPixels ==
    \E i \in DOMAIN gl : \E ctx \in 1..gl[i].context, pixels \in PixelViews :
        LogQuery(i, ctx, "readPixels", pixels, ReadPixels(gl[i], pixels))

\* reading pixels back, with rendering and state calls in between
WebGLPixelsNext ==
    \/ CallCreateContext
    \/ CallRender
    \/ CallReadPixels

\* the parameter table and the extension catalogue, with calls that create
\* contexts and objects in between
WebGLQueryNext ==
    \/ CallCreateContext
    \/ CallCreateProgram
    \/ CallGetParameter
    \/ CallGetExtension

\* the shader and program pipeline
WebGLShaderNext ==
    \/ CallCreateContext
    \/ CallCreateShader
    \/ CallCreateProgram
    \/ CallShaderSource
    \/ CallCompileShader
    \/ CallAttachShader
    \/ CallLinkProgram
    \/ CallGetShaderParameter
    \/ CallGetShaderInfoLog
    \/ CallGetProgramParameter
    \/ CallGetProgramInfoLog
-----------------------------------------------------------------------------
(* Emulator lifecycle: ChromeEmulatorImpl in src/src/emulators/chrome-emulator.ts *)

\* a config validateConfig rejects: viewport.width <= 0
InvalidConfig == [DefaultConfig EXCEPT !.viewport.width = 0]

\* initialize(configPath): '' (none given), a file with a valid config, a
\* file with a rejected config; any other path names no file
ConfigFiles == [custom |-> ViewportConfig, invalid |-> InvalidConfig]
ConfigPaths == {"", "custom", "invalid", "missing"}

\* initialize(, profileName): '' (none given), a profile with a valid
\* config, a profile with a rejected config; any other name has no profile
Profiles == [chrome139 |-> DefaultConfig, broken |-> InvalidConfig]
ProfileNames == {"", "chrome139", "broken", "missing"}

\* EmulationConfigManager.validateConfig: TRUE when it returns, FALSE when it
\* throws (the config of the model carries no userAgent)
ValidateConfig(cfg) ==
    /\ cfg.chromeVersion # <<>> /\ cfg.platform # <<>>
    /\ cfg.viewport.width > 0 /\ cfg.viewport.height > 0
    /\ cfg.webgl.vendor # <<>> /\ cfg.webgl.renderer # <<>>
    /\ cfg.audio.sampleRate > 0 /\ cfg.audio.maxChannelCount > 0
    /\ cfg.performance.baseLatency >= 0

\* EmulationConfigManager.loadConfig: <<config>> when it returns, <<>> when
\* it throws
LoadConfig(configPath) ==
    CASE configPath = "" -> <<DefaultConfig>>
      [] configPath \notin DOMAIN ConfigFiles -> <<>>
      [] OTHER -> IF ValidateConfig(ConfigFiles[configPath])
                  THEN <<ConfigFiles[configPath]>> ELSE <<>>

\* field initialisers and constructor; config and domManager are <<>> for
\* null; windows is history: the number of Window objects created so far
ConstructChromeEmulator ==
    [config |-> <<>>, domManager |-> <<>>, initialized |-> FALSE, startTime |-> 0,
     windows |-> 0]

\* new SafeDOMManager(config); performance and audio are history: the configs
\* the Performance and Audio emulators of the window were constructed from
NewSafeDOMManager(cfg) ==
    [config |-> cfg, window |-> <<>>, performance |-> <<>>, audio |-> <<>>]

\* SafeDOMManager.setupWindow when it returns: `id` is the identity of the new
\* Window; configureChromeLikeProperties constructs the two emulators
SetupWindow(d, id) ==
    [d EXCEPT !.window = <<id>>, !.performance = <<d.config>>, !.audio = <<d.config>>]

\* setupEnvironment: the emulator it leaves and whether it returned or threw;
\* `windowFails` is whether SafeDOMManager.setupWindow throws
SetupEnvironment(e, windowFails) ==
    IF e.config = <<>>
    THEN [emulator |-> e, outcome |-> "EmulationError"]
    ELSE LET manager == NewSafeDOMManager(e.config[1])
         IN  IF windowFails
             THEN [emulator |-> [e EXCEPT !.domManager = <<manager>>],
                   outcome |-> "EmulationError"]
             ELSE [emulator |-> [e EXCEPT !.domManager =
                                              <<SetupWindow(manager, e.windows + 1)>>,
                                          !.windows = @ + 1],
                   outcome |-> "ok"]

\* initialize: the emulator it leaves and whether it returned or threw an
\* EmulationError. `now` is performance.now(); `windowFails` is whether
\* SafeDOMManager.setupWindow throws
Initialize(e, configPath, profileName, now, windowFails) ==
    LET started == [e EXCEPT !.startTime = now]
        loaded  == IF profileName # ""
                   THEN IF profileName \in DOMAIN Profiles
                        THEN <<Profiles[profileName]>> ELSE <<>>
                   ELSE LoadConfig(configPath)
    IN  IF loaded = <<>>
        THEN [emulator |-> started, outcome |-> "EmulationError"]
        ELSE LET configured == [started EXCEPT !.config = loaded]
                 setup      == SetupEnvironment(configured, windowFails)
             IN  IF ~ValidateConfig(loaded[1])
                 THEN [emulator |-> configured, outcome |-> "EmulationError"]
                 ELSE IF setup.outcome # "ok"
                 THEN setup
                 ELSE [emulator |-> [setup.emulator EXCEPT !.initialized = TRUE],
                       outcome |-> "ok"]

\* runCreepJS: reading this.config!.platform of a null config is a TypeError,
\* which the catch rethrows as an EmulationError
RunCreepJS(e) ==
    IF ~e.initialized \/ e.config = <<>> THEN "EmulationError" ELSE "ok"

\* generateReport
GenerateReport(e) ==
    IF ~e.initialized \/ e.config = <<>> THEN "EmulationError" ELSE "ok"

\* isInitialized, getConfig
IsInitialized(e) == e.initialized
GetConfig(e) == e.config

\* getWindow: <<>> for null
GetWindow(e) == IF e.domManager # <<>> THEN e.domManager[1].window ELSE <<>>

\* mutation of Cleanup: the initialized flag is left as it is
Cleanup_KeepsFlag(e) == [e EXCEPT !.domManager = <<>>, !.config = <<>>]

\* cleanup (SafeDOMManager.cleanup catches whatever it raises)
Cleanup(e) == [e EXCEPT !.domManager = <<>>, !.initialized = FALSE, !.config = <<>>]

\* new ChromeEmulatorImpl()
ChromeInit ==
    /\ chrome = <<ConstructChromeEmulator>>
    /\ chromeLog = <<>>

\* every call is kept with its outcome
LogCall(e, call, outcome) ==
    /\ Len(chromeLog) < MaxChromeCalls
    /\ chrome' = <<e>>
    /\ chromeLog' = Append(chromeLog, [call |-> call, outcome |-> outcome])
    /\ UNCHANGED <<perfVars, canvasVars, audioVars, glVars>>

\* await emulator.initialize(configPath, profileName)
CallInitialize ==
    \E configPath \in ConfigPaths, profileName \in ProfileNames, now \in 0..MaxWallMs,
       windowFails \in BOOLEAN :
        LET r == Initialize(chrome[1], configPath, profileName, now, windowFails)
        IN  LogCall(r.emulator, "initialize", r.outcome)

\* await emulator.runCreepJS()
CallRunCreepJS == LogCall(chrome[1], "runCreepJS", RunCreepJS(chrome[1]))

\* emulator.generateReport()
CallGenerateReport == LogCall(chrome[1], "generateReport", GenerateReport(chrome[1]))

\* await emulator.cleanup()
CallCleanup == LogCall(Cleanup(chrome[1]), "cleanup", "ok")

\* await emulator.setupEnvironment()
CallSetupEnvironment ==
    \E windowFails \in BOOLEAN :
        LET r == SetupEnvironment(chrome[1], windowFails)
        IN  LogCall(r.emulator, "setupEnvironment", r.outcome)

\* the calls that load a config and build the environment
ChromeSetupNext ==
    \/ CallInitialize
    \/ CallSetupEnvironment
    \/ CallCleanup

ChromeNext ==
    \/ CallInitialize
    \/ CallRunCreepJS
    \/ CallGenerateReport
    \/ CallCleanup


-----------------------------------------------------------------------------
(* Specifications *)

\* one Performance emulator constructed, nothing else
InitPerformance == PerfInit /\ CanvasIdle /\ AudioIdle /\ GLIdle /\ ChromeIdle

SpecClock == InitPerformance /\ [][ClockNext]_vars
SpecTimeline == InitPerformance /\ [][TimelineNext]_vars
SpecMarks == InitPerformance /\ [][MarksNext]_vars
SpecResources == InitPerformance /\ [][ResourcesNext]_vars

\* two Canvas emulators constructed, nothing else
InitCanvas == PerfIdle /\ CanvasInit /\ AudioIdle /\ GLIdle /\ ChromeIdle

SpecCanvas == InitCanvas /\ [][CanvasNext]_vars

\* two Canvas emulators constructed from configs that differ in one field
InitCanvasVariants == PerfIdle /\ CanvasVariantsInit /\ AudioIdle /\ GLIdle /\ ChromeIdle

SpecCanvasVariants == InitCanvasVariants /\ [][CanvasPixelsNext]_vars

InitAudio == PerfIdle /\ CanvasIdle /\ AudioInit /\ GLIdle /\ ChromeIdle
SpecAudio == InitAudio /\ [][AudioNext]_vars
SpecOffline == InitAudio /\ [][OfflineNext]_vars
SpecAudioState == InitAudio /\ [][AudioStateNext]_vars

InitWebGL == PerfIdle /\ CanvasIdle /\ AudioIdle /\ GLInit /\ ChromeIdle
SpecWebGL == InitWebGL /\ [][WebGLNext]_vars
SpecWebGLQuery == InitWebGL /\ [][WebGLQueryNext]_vars
SpecWebGLPixels == InitWebGL /\ [][WebGLPixelsNext]_vars
InitWebGLShader == PerfIdle /\ CanvasIdle /\ AudioIdle /\ GLInitOne /\ ChromeIdle
SpecWebGLShader == InitWebGLShader /\ [][WebGLShaderNext]_vars

SpecAudioContext == InitAudio /\ [][AudioContextNext]_vars

InitChrome == PerfIdle /\ CanvasIdle /\ AudioIdle /\ GLIdle /\ ChromeInit
SpecChrome == InitChrome /\ [][ChromeNext]_vars
SpecChromeSetup == InitChrome /\ [][ChromeSetupNext]_vars

-----------------------------------------------------------------------------
(* Performance emulator: properties *)

\* the positions of clockLog that are now() calls
NowReads == {i \in 1..Len(clockLog) : clockLog[i].op = "now"}

\* C1: on one Performance Emulator instance the values returned by successive
\* now() calls never decrease, whatever clock-reading calls (mark, measure,
\* addResourceTiming) are interleaved and whatever the wall clock does,
\* backward steps included.
C1_NowNonDecreasing ==
    \A i, j \in NowReads : i < j => clockLog[i].value <= clockLog[j].value

\* two now() calls with another clock-reading call in between, the second
\* made at an earlier wall-clock reading than the first
C1_Witness ==
    \E i, j \in NowReads :
        /\ i < j
        /\ clockLog[j].wall < clockLog[i].wall
        /\ \E k \in (i + 1)..(j - 1) : clockLog[k].op \in {"mark", "measure", "addResourceTiming"}

\* the ids of the entries getEntriesByType('resource') returns, in order
ResourceIds == [i \in 1..Len(GetEntriesByType(perf, "resource")) |->
                   GetEntriesByType(perf, "resource")[i].id]

\* C2: after setResourceTimingBufferSize(k) with a positive integer k and then
\* n > k addResourceTiming calls, getEntriesByType('resource') is exactly the
\* last k entries added, in the order they were added.
C2_BufferKeepsLastK ==
    (resizeMark # <<>> /\ addCount - resizeMark[1].at > resizeMark[1].k)
        => ResourceIds = [i \in 1..resizeMark[1].k |-> addCount - resizeMark[1].k + i]

\* a buffer size k was set and more than k entries were added after it
C2_Witness ==
    /\ resizeMark # <<>>
    /\ addCount - resizeMark[1].at > resizeMark[1].k
    /\ Len(GetEntriesByType(perf, "resource")) = resizeMark[1].k

\* C8: two now() calls whose wall-clock readings are separated by at least the
\* configured resolution: the later call returns a strictly greater value,
\* whatever happened in between or before.
C8_StrictAcrossResolution ==
    \A i, j \in NowReads :
        (i < j /\ (clockLog[j].wall - clockLog[i].wall) * 100 >= Resolution(perf.config))
            => clockLog[j].value > clockLog[i].value

\* C9: after any sequence of timeline operations, getEntriesByType('navigation')
\* returns exactly one entry, and its milestones are in the documented order
\* connectStart <= connectEnd <= requestStart <= responseStart <= responseEnd <=
\* domInteractive <= domContentLoadedEventStart <= domContentLoadedEventEnd <=
\* loadEventStart <= loadEventEnd.
C9_NavigationChain ==
    LET nav == GetEntriesByType(perf, "navigation")
    IN  /\ Len(nav) = 1
        /\ nav[1].connectStart <= nav[1].connectEnd
        /\ nav[1].connectEnd <= nav[1].requestStart
        /\ nav[1].requestStart <= nav[1].responseStart
        /\ nav[1].responseStart <= nav[1].responseEnd
        /\ nav[1].responseEnd <= nav[1].domInteractive
        /\ nav[1].domInteractive <= nav[1].domContentLoadedEventStart
        /\ nav[1].domContentLoadedEventStart <= nav[1].domContentLoadedEventEnd
        /\ nav[1].domContentLoadedEventEnd <= nav[1].loadEventStart
        /\ nav[1].loadEventStart <= nav[1].loadEventEnd

\* marks, measures and resources were added and cleared, the buffer resized,
\* on a config whose seed is not the default one
C9_Witness ==
    /\ perf.config = VersionConfig
    /\ Len(perf.markEntries) > 0
    /\ Len(perf.measureEntries) > 0
    /\ perf.resourceBufferSize < 250
    /\ addCount > 3
    /\ Len(GetEntriesByType(perf, "navigation")) = 1

\* the entries of a collection whose name is not `name`, in their order
Others(entries, name) ==
    LET Keep(e) == e.name # name
    IN  SelectSeq(entries, Keep)

\* the collections a clearMarks call must leave alone
SameButMarks ==
    /\ perf'.measureEntries = perf.measureEntries
    /\ perf'.resourceEntries = perf.resourceEntries
    /\ perf'.navigationEntries = perf.navigationEntries

\* the collections a clearMeasures call must leave alone
SameButMeasures ==
    /\ perf'.markEntries = perf.markEntries
    /\ perf'.resourceEntries = perf.resourceEntries
    /\ perf'.navigationEntries = perf.navigationEntries

\* C12: a clearMarks(name) step, for every name string (the empty string
\* included), removes exactly the marks named `name` and leaves the other
\* marks in their order and all measure, resource and navigation entries as
\* they were; a clearMeasures(name) step does the same for measures; without
\* an argument each empties only its own collection.
C12_ClearByName ==
    [][ /\ \A name \in {"", "a", "b"} :
             perf' = ClearMarks(perf, <<name>>)
                 => perf'.markEntries = Others(perf.markEntries, name) /\ SameButMarks
        /\ \A name \in {"", "m"} :
             perf' = ClearMeasures(perf, <<name>>)
                 => perf'.measureEntries = Others(perf.measureEntries, name)
                    /\ SameButMeasures
        /\ perf' = ClearMarks(perf, <<>>) => perf'.markEntries = <<>> /\ SameButMarks
        /\ perf' = ClearMeasures(perf, <<>>)
               => perf'.measureEntries = <<>> /\ SameButMeasures
      ]_vars

\* C13: a measure() step appends exactly one measure entry, whose duration is
\* max(0, end - start) of the resolved start and end timestamps; every measure
\* entry has duration >= 0, also when the end mark is earlier than the start
\* mark or an explicit startTime exceeds endTime.
C13_MeasureDuration ==
    [][ \A arg \in MeasureArgs :
          perf' = Measure(perf, "m", arg, wall) =>
            LET n     == Len(perf.measureEntries)
                start == MeasureStart(perf, arg)
                end   == IF MeasureReadsClock(perf, arg) THEN perf'.lastNowMs
                         ELSE MeasureEndNoClock(perf, arg)[1].startTime
            IN  /\ Len(perf'.measureEntries) = n + 1
                /\ SubSeq(perf'.measureEntries, 1, n) = perf.measureEntries
                /\ perf'.measureEntries[n + 1].name = "m"
                /\ perf'.measureEntries[n + 1].duration =
                       (IF end > start THEN end - start ELSE 0)
                /\ \A i \in 1..(n + 1) : perf'.measureEntries[i].duration >= 0
      ]_vars

\* a measure of duration 0 from mark a to the earlier mark b
C13_Witness ==
    /\ FindLastMark(perf, "a") # <<>>
    /\ FindLastMark(perf, "b") # <<>>
    /\ FindLastMark(perf, "b")[1].startTime < FindLastMark(perf, "a")[1].startTime
    /\ \E i \in 1..Len(perf.measureEntries) :
          /\ perf.measureEntries[i].duration = 0
          /\ perf.measureEntries[i].startTime = FindLastMark(perf, "a")[1].startTime

\* C20: every now() call returns a value strictly above the value returned
\* by the previous clock read on the instance.
C20_NowStrictlyIncreasing ==
    \A i \in NowReads : i > 1 => clockLog[i].value > clockLog[i - 1].value

\* the startTime of the most recently added mark named `name` among `marks`
LatestMarkTime(marks, name) ==
    marks[CHOOSE i \in DOMAIN marks :
              /\ marks[i].name = name
              /\ \A j \in (i + 1)..Len(marks) : marks[j].name # name].startTime

HasMark(marks, name) == \E i \in DOMAIN marks : marks[i].name = name

C22_WithinCapacity ==
    Len(GetEntriesByType(perf, "resource")) <= perf.resourceBufferSize

\* the milestones of a resource entry, in the order the timeline gives them
Milestones(e) ==
    << e.fetchStart, e.domainLookupStart, e.domainLookupEnd, e.connectStart,
       e.connectEnd, e.requestStart, e.responseStart, e.responseEnd >>

\* C23: every resource entry stored by addResourceTiming(partial), for every
\* partial (any supplied startTime, duration or size fields), has
\* non-decreasing milestones fetchStart <= domainLookupStart <= domainLookupEnd
\* <= connectStart <= connectEnd <= requestStart <= responseStart <=
\* responseEnd, and a non-empty serverTiming list.
C23_ResourceMilestones ==
    \A i \in DOMAIN perf.resourceEntries :
        LET e == perf.resourceEntries[i]
        IN  /\ \A k \in 1..7 : Milestones(e)[k] <= Milestones(e)[k + 1]
            /\ e.serverTiming # <<>>

-----------------------------------------------------------------------------
(* Canvas emulator: properties *)

\* C3: two getImageData calls with the same (x, y, w, h) on the same 2D context
\* return the same object reference, and calls with different (x, y, w, h)
\* return different references, whatever was drawn before or between them.
C3_ImageDataIdentity ==
    \A a, b \in canvasLog.images :
        a.ctx = b.ctx =>
            \A i \in Instances :
                (a.region = b.region) <=> (a.returned[i].ref = b.returned[i].ref)

\* the latest call read a region again on the same context after more drawing
\* calls, and another region was read on that context too
C3_Witness ==
    /\ canvasLog.last # <<>>
    /\ canvasLog.last[1].op = "getImageData"
    /\ \E a, b \in canvasLog.images :
        /\ a.ctx = canvasLog.last[1].args[1] /\ a.region = canvasLog.last[1].args[2]
        /\ a.drawn < canvasLog.last[1].args[3]
        /\ a.returned = canvasLog.last[1].returned
        /\ b.ctx = a.ctx /\ b.region # a.region

\* C4: two independently constructed Canvas emulators with the same config that
\* receive the same sequence of calls return identical getImageData bytes,
\* identical measureText metrics and identical toDataURL strings.
C4_InstancesAgree ==
    canvas[1].config = canvas[2].config =>
        /\ \A a \in canvasLog.images : a.returned[1].image = a.returned[2].image
        /\ (canvasLog.last # <<>> /\ canvasLog.last[1].op \in {"measureText", "toDataURL"})
               => canvasLog.last[1].returned[1] = canvasLog.last[1].returned[2]

\* pixels were read after drawing calls, and the latest read is a toDataURL
C4_Witness ==
    /\ canvas[1].config = canvas[2].config
    /\ \E a \in canvasLog.images : a.drawn > 3
    /\ canvasLog.last # <<>>
    /\ canvasLog.last[1].op = "toDataURL"

\* the identity fields of a config
IdentityFields(cfg) ==
    << cfg.chromeVersion, cfg.platform, cfg.viewport, cfg.webgl,
       cfg.audio.sampleRate, cfg.performance.baseLatency >>

DiffersInOneIdentityField(c1, c2) ==
    Cardinality({k \in 1..6 : IdentityFields(c1)[k] # IdentityFields(c2)[k]}) = 1

\* C7: for two configs that differ in exactly one identity field (chrome
\* version, platform, viewport, renderer identity, sample rate, base latency)
\* and the same draw calls, getImageData over the same region differs in at
\* least one byte.
C7_OneFieldChangesPixels ==
    DiffersInOneIdentityField(canvas[1].config, canvas[2].config) =>
        \A a \in canvasLog.images :
            a.returned[1].image.data # a.returned[2].image.data

\* the part of a string before, and after, the first occurrence of character c
Before(str, c) == SubSeq(str, 1, (CHOOSE i \in 1..Len(str) :
                                     str[i] = c /\ \A j \in 1..(i - 1) : str[j] # c) - 1)
After(str, c) == SubSeq(str, Len(Before(str, c)) + 2, Len(str))

\* of a data URL "data:<mime type>;base64,<payload>": the mime type, the
\* payload, and the signature the payload starts with ("" when it has none)
MimeOf(url) == Before(After(url, 58), 59)
PayloadOf(url) == After(url, 44)
SignatureOf(url) ==
    LET StartsWith(sig) == Len(PayloadOf(url)) >= Len(sig) /\
                           SubSeq(PayloadOf(url), 1, Len(sig)) = sig
    IN  IF StartsWith(Str.PNG_SIGNATURE) THEN Str.PNG_SIGNATURE
        ELSE IF StartsWith(Str.JPEG_SIGNATURE) THEN Str.JPEG_SIGNATURE ELSE <<>>

\* C18: toDataURL(type, quality) on a canvas returns the identical string for
\* identical (canvas dimensions, config, type, quality), and for any two
\* different mime types it returns strings whose signature prefix differs and
\* whose payload differs. Stated of every toDataURL call and the toDataURL
\* call that was the latest read before it.
C18_DataURL ==
    [][ ( /\ canvasLog.last # <<>> /\ canvasLog.last[1].op = "toDataURL"
          /\ canvasLog'.last # <<>> /\ canvasLog'.last[1].op = "toDataURL" ) =>
        LET old == canvasLog.last[1]
            new == canvasLog'.last[1]
        IN  \A i \in Instances :
              /\ old.args = new.args => old.returned[i] = new.returned[i]
              /\ MimeOf(old.returned[i]) # MimeOf(new.returned[i]) =>
                    /\ SignatureOf(old.returned[i]) # SignatureOf(new.returned[i])
                    /\ PayloadOf(old.returned[i]) # PayloadOf(new.returned[i])
      ]_vars

\* the render operation log of emulator e extended by exactly one entry
AppendsOne(e, after) ==
    /\ Len(after.renderKeys) = Len(e.renderKeys) + 1
    /\ SubSeq(after.renderKeys, 1, Len(e.renderKeys)) = e.renderKeys

\* C26: every mutating drawing call on a 2D context returns normally and
\* appends exactly one entry to the render operation log: made in any
\* reachable state, so also when the same call with the same arguments was
\* made before, the call leaves a log that is the earlier log with one entry
\* appended.
C26_DrawAppendsOne ==
    \A i \in Instances :
        /\ \A r \in Rects : Contexts # {} => AppendsOne(canvas[i], FillRect(canvas[i], r))
        /\ Contexts # {} => AppendsOne(canvas[i], BeginPath(canvas[i]))
        /\ \A ctx \in Contexts, text \in Texts :
               AppendsOne(canvas[i], FillText(canvas[i], ctx, text, 2, 15))

\* the pixel data getImageData returns for region r when called on context
\* ctx of emulator e; the method closes over the emulator, whichever context
\* it belongs to
PixelsThrough(e, ctx, r) == GetImageData(e, r[1], r[2], r[3], r[4]).returned.image.data

\* the data URL toDataURL returns on the canvas of context ctx of emulator e
DataURLThrough(e, ctx, a) ==
    CreateChromeDataURL(e, e.contexts[ctx].width, e.contexts[ctx].height, a[1], a[2])

\* C28: canvas mutable state is owned per context: for any two 2D contexts, a
\* drawing call or a getImageData call on one of them, made in any reachable
\* state, does not change the pixel data or the toDataURL result observed
\* through the other.
C28_ContextsIndependent ==
    \A i \in Instances : \A c, d \in Contexts :
        c # d =>
            \A r \in Regions, a \in DataURLArgs :
                /\ \A text \in Texts :
                      LET drawn == FillText(canvas[i], c, text, 2, 15)
                      IN  /\ PixelsThrough(drawn, d, r) = PixelsThrough(canvas[i], d, r)
                          /\ DataURLThrough(drawn, d, a) = DataURLThrough(canvas[i], d, a)
                /\ \A q \in Regions :
                      LET read == GetImageData(canvas[i], q[1], q[2], q[3], q[4]).emulator
                      IN  /\ PixelsThrough(read, d, r) = PixelsThrough(canvas[i], d, r)
                          /\ DataURLThrough(read, d, a) = DataURLThrough(canvas[i], d, a)

-----------------------------------------------------------------------------
(* Claims about the Audio emulator *)

\* C5: createBuffer(channels, length, rate) called with the same arguments
\* under the same config yields buffers with identical channel data, across
\* repeated calls on one context, across contexts and across independently
\* constructed Audio emulator instances.
C5_SameArgumentsSameData ==
    \A a \in audioLog.buffers, b \in audioLog.buffers :
        a.args = b.args => a.buffer.dataPerChannel = b.buffer.dataPerChannel

\* C10: on a buffer made by createBuffer, getChannelData(c) raises RangeError
\* for every c outside [0, numberOfChannels), where numberOfChannels is at
\* most the configured maximum; for a valid c every call returns the same
\* channel content.
C10_ChannelRange ==
    \A r \in audioLog.reads :
        LET n == r.of.buffer.numberOfChannels
        IN  /\ n <= audio[r.of.emulator].config.audio.maxChannelCount
            /\ (r.of.args[1] \in 1..audio[r.of.emulator].config.audio.maxChannelCount
                    => n = r.of.args[1])
            /\ (r.channel < 0 \/ r.channel >= n) => r.outcome = [error |-> "RangeError"]
            /\ (r.channel >= 0 /\ r.channel < n) =>
                   /\ DOMAIN r.outcome = {"data"}
                   /\ Len(r.outcome.data) = r.of.buffer.length
                   /\ \A q \in audioLog.reads :
                          (q.of = r.of /\ q.channel = r.channel) => q.outcome = r.outcome

\* a second read of a valid channel, and a read at index numberOfChannels
C10_Witness ==
    /\ \E r \in audioLog.reads :
          r.call = 2 /\ r.channel >= 0 /\ r.channel < r.of.buffer.numberOfChannels
    /\ \E r \in audioLog.reads :
          r.channel = r.of.buffer.numberOfChannels /\ r.outcome = [error |-> "RangeError"]

\* C11: a realtime context starts in state 'suspended', and close is terminal:
\* once the state is 'closed' it stays 'closed' after every later resume(),
\* suspend() and close() call.
C11_CloseIsTerminal ==
    [][ \A i \in DOMAIN audio : \A ctx \in DOMAIN audio'[i].contexts :
          audio'[i].contexts[ctx].kind = "realtime" =>
              IF ctx \in DOMAIN audio[i].contexts
              THEN audio[i].contexts[ctx].state = "closed"
                       => audio'[i].contexts[ctx].state = "closed"
              ELSE audio'[i].contexts[ctx].state = "suspended"
      ]_vars

\* C16: an analyser's fftSize is always one of 32, 64, ..., 32768: it is 2048
\* until assigned, an assigned allowed value takes effect, any other assigned
\* value leaves it at 2048, and frequencyBinCount is fftSize / 2.
C16_FftSize ==
    \A a \in Analysers :
        LET an == audio[a[1]].contexts[a[2]].analysers[a[3]]
        IN  /\ \E e \in 5..15 : an.fftSize = 2 ^ e
            /\ an.assigned = <<>> => an.fftSize = 2048
            /\ an.assigned # <<>> =>
                   an.fftSize = (IF \E e \in 5..15 : an.assigned[1] = 2 ^ e
                                 THEN an.assigned[1] ELSE 2048)
            /\ 2 * FrequencyBinCount(an) = an.fftSize

\* one analyser holds an assigned allowed value, another fell back to 2048
\* after a value outside the allowed set
C16_Witness ==
    \E a, b \in Analysers :
        LET x == audio[a[1]].contexts[a[2]].analysers[a[3]]
            y == audio[b[1]].contexts[b[2]].analysers[b[3]]
        IN  /\ x.assigned = <<32768>> /\ x.fftSize = 32768
            /\ y.assigned = <<65536>> /\ y.fftSize = 2048

\* C24: offline rendering is reproducible: two offline audio contexts created
\* with the same (channels, length, sampleRate) on which the same sequence of
\* connect calls was made return sample-identical buffers from startRendering,
\* also when both contexts come from the same Audio emulator one after the
\* other.
C24_OfflineReproducible ==
    \A r1, r2 \in audioLog.renders :
        (r1.args = r2.args /\ r1.connects = r2.connects) => r1.buffer = r2.buffer

\* the realtime contexts present before and after a step, as <<emulator, context>>
StableContexts ==
    {<<i, ctx>> \in (DOMAIN audio) \X (1..MaxAudioContexts) :
        /\ ctx \in Realtime(i)
        /\ ctx \in DOMAIN audio'[i].contexts}

\* C25: each state transition of a realtime audio context caused by resume(),
\* suspend() or close() invokes the registered onstatechange callback exactly
\* once, during the call and after the state has been updated (the callback
\* observes the new state); with no callback registered the call completes
\* without error.
C25_StateChangeCallback ==
    [][ \A x \in StableContexts :
          LET before == audio[x[1]].contexts[x[2]]
              after  == audio'[x[1]].contexts[x[2]]
          IN  after.state # before.state =>
                /\ after.lastCall # <<>>
                /\ after.lastCall[1].call \in {"resume", "suspend", "close"}
                /\ after.lastCall[1].settled = "fulfilled"
                /\ after.lastCall[1].notified =
                       IF before.onstatechange = "null" THEN <<>> ELSE <<after.state>>
      ]_vars

\* a context with a callback registered was resumed from the suspended state,
\* and one without a callback was closed
C25_Witness ==
    \E i, j \in DOMAIN audio :
        \E c \in Realtime(i), d \in Realtime(j) :
            /\ audio[i].contexts[c].onstatechange = "function"
            /\ audio[i].contexts[c].lastCall =
                   <<[call |-> "resume", notified |-> <<"running">>, settled |-> "fulfilled"]>>
            /\ audio[j].contexts[d].onstatechange = "null"
            /\ audio[j].contexts[d].lastCall =
                   <<[call |-> "close", notified |-> <<>>, settled |-> "fulfilled"]>>

-----------------------------------------------------------------------------
(* Claims about the WebGL emulator *)

\* C6: for a fixed config, every object-creating call (createShader,
\* createProgram, createBuffer, createTexture, createQueryEXT,
\* createVertexArrayOES) returns an object with the same id on every call
\* and on independently constructed contexts.
C6_SameConfigSameIds ==
    \A a \in glLog, b \in glLog :
        (a.call = b.call /\ a.subtype = b.subtype) => a.id = b.id

\* C14: for every parameter enum that the parameter table holds, those
\* whose table value is 0 (SAMPLES, SAMPLE_BUFFERS) included, getParameter
\* returns exactly the table value; for every enum not in the table it
\* returns null; the table content is the same before and after any sequence
\* of context calls.
C14_ParameterTable ==
    /\ \A i \in DOMAIN gl :
        gl[i].context > 0 => gl[i].parameters = ChromeParams(gl[i].config)
    /\ \A k \in DOMAIN glRead :
        glRead[k].call = "getParameter" =>
            LET table == gl[glRead[k].emulator].parameters
            IN  IF \E n \in DOMAIN table : table[n].key = glRead[k].arg
                THEN glRead[k].result = MapGet(table, glRead[k].arg)
                ELSE glRead[k].result = Null

\* C15: on any created context, getExtension(name) returns a non-null
\* extension object exactly when name is one of the names
\* getSupportedExtensions() returns, and null for every other name.
C15_ExtensionSupport ==
    \A k \in DOMAIN glRead :
        glRead[k].call = "getExtension" =>
            LET supported == GetSupportedExtensions(gl[glRead[k].emulator])
            IN  IF \E n \in DOMAIN supported : supported[n] = glRead[k].arg
                THEN glRead[k].result.type = "object"
                ELSE glRead[k].result = Null

\* an unsupported name was asked on the second context of an emulator, after
\* objects were created, and the answer was null
C15_Witness ==
    /\ glLog # {}
    /\ \E k \in DOMAIN glRead :
        /\ glRead[k].call = "getExtension"
        /\ glRead[k].arg = "UNSUPPORTED_EXTENSION"
        /\ glRead[k].context = 2
        /\ glRead[k].result = Null
        /\ Len(GetSupportedExtensions(gl[glRead[k].emulator])) = Len(ChromeExtensions)

\* C19: in every order of calls, getShaderParameter(COMPILE_STATUS) and
\* getProgramParameter(LINK_STATUS) return true and getShaderInfoLog and
\* getProgramInfoLog return the empty string, whether or not shaderSource,
\* compileShader, attachShader or linkProgram were called before.
C19_AlwaysSuccess ==
    \A k \in DOMAIN glRead :
        LET r == glRead[k]
        IN  /\ (r.call = "getShaderParameter" /\ r.arg[2] = GL.COMPILE_STATUS)
                => r.result = Value("boolean", <<TRUE>>)
            /\ (r.call = "getProgramParameter" /\ r.arg[2] = GL.LINK_STATUS)
                => r.result = Value("boolean", <<TRUE>>)
            /\ r.call \in {"getShaderInfoLog", "getProgramInfoLog"}
                => r.result = Value("string", <<>>)

\* COMPILE_STATUS was asked of a shader that was never given a source nor
\* compiled, while another shader was compiled and a program linked
C19_Witness ==
    /\ \A i \in DOMAIN gl : gl[i].shaderCache = <<>>
    /\ \E s \in Shaders : s.props.compiled
    /\ \E p \in Programs : p.props.linked
    /\ \E k \in DOMAIN glRead :
        /\ glRead[k].call = "getShaderParameter"
        /\ glRead[k].arg[2] = GL.COMPILE_STATUS
        /\ ~glRead[k].arg[1].props.compiled
        /\ glRead[k].arg[1] \in Shaders
        /\ glRead[k].result = Value("boolean", <<TRUE>>)

\* C27: readPixels fills the byte destination buffer with the seed-derived
\* 4-byte RGBA pattern, so that the buffer content after the call depends only
\* on the config seed: whatever calls came before and whatever the buffer held,
\* it is what the call leaves in an all-zero buffer of the same length.
C27_ReadPixelsOnlySeed ==
    \A i \in DOMAIN glRead :
        (glRead[i].call = "readPixels" /\ glRead[i].arg.kind = "Uint8Array") =>
            glRead[i].result =
                ReadPixels(gl[glRead[i].emulator],
                           [glRead[i].arg EXCEPT !.data = [k \in 1..Len(@) |-> 0]])

-----------------------------------------------------------------------------
(* Claims about the emulator lifecycle *)

\* after the first k calls: a successful initialize() with no cleanup() after it
InitializedAfter(k) ==
    \E j \in 1..k :
        /\ chromeLog[j].call = "initialize" /\ chromeLog[j].outcome = "ok"
        /\ \A m \in (j + 1)..k : chromeLog[m].call # "cleanup"

\* C17: runCreepJS() and generateReport() raise an EmulationError whenever
\* the emulator is not initialized, that is before the first successful
\* initialize() and after every cleanup(), and succeed whenever it is
\* initialized; cleanup() always leaves isInitialized() false and getConfig()
\* null.
C17_Lifecycle ==
    /\ \A k \in DOMAIN chromeLog :
        chromeLog[k].call \in {"runCreepJS", "generateReport"} =>
            (chromeLog[k].outcome = "EmulationError" <=> ~InitializedAfter(k - 1))
    /\ \A e \in {chrome[i] : i \in DOMAIN chrome} :
        /\ IsInitialized(e) <=> InitializedAfter(Len(chromeLog))
        /\ (chromeLog # <<>> /\ chromeLog[Len(chromeLog)].call = "cleanup")
            => ~IsInitialized(e) /\ GetConfig(e) = <<>>

\* initialized, used, cleaned up, and then refused
C17_Witness ==
    /\ Len(chromeLog) = 4
    /\ chromeLog[1] = [call |-> "initialize", outcome |-> "ok"]
    /\ chromeLog[2] = [call |-> "runCreepJS", outcome |-> "ok"]
    /\ chromeLog[3] = [call |-> "cleanup", outcome |-> "ok"]
    /\ chromeLog[4] = [call |-> "generateReport", outcome |-> "EmulationError"]

\* C29: for any sequence of initialize(), setupEnvironment() and cleanup()
\* calls, the DOM manager and the Performance and Audio emulators are only
\* ever constructed from a config that has passed validateConfig.
C29_ValidatedBeforeConstruction ==
    \A i \in DOMAIN chrome :
        chrome[i].domManager # <<>> =>
            LET d == chrome[i].domManager[1]
            IN  /\ ValidateConfig(d.config)
                /\ \A cfg \in {d.performance[k] : k \in DOMAIN d.performance} \cup
                              {d.audio[k] : k \in DOMAIN d.audio} : ValidateConfig(cfg)

\* C30: when initialize() rejects (unknown profile, unreadable config file,
\* failed validation or failed environment setup), the observable state is
\* unchanged: isInitialized(), getConfig() and getWindow() return what they
\* returned before the call, both for a fresh emulator and for one that was
\* already initialized.
C30_RejectedInitializeChangesNothing ==
    [][ ( /\ Len(chromeLog') = Len(chromeLog) + 1
          /\ chromeLog'[Len(chromeLog')] = [call |-> "initialize", outcome |-> "EmulationError"] )
        => /\ IsInitialized(chrome'[1]) = IsInitialized(chrome[1])
           /\ GetConfig(chrome'[1]) = GetConfig(chrome[1])
           /\ GetWindow(chrome'[1]) = GetWindow(chrome[1])
      ]_vars
=============================================================================
